---- MODULE Spec2Model ----
(***************************************************************************)
(* Model of the surface extractor of binary-man: the planner client's plan *)
(* validation (planner.rs), the per-probe existence classification         *)
(* (validate.rs), the binding inference rules and the probe executor       *)
(* execute_plan (main.rs).                                                 *)
(*                                                                         *)
(* Option tokens and reported tokens are sequences of one-character        *)
(* strings, so that lower-casing, length and prefix tests are computed.    *)
(***************************************************************************)
EXTENDS Integers, Sequences, FiniteSets, TLC

VARIABLES
    \* ---- planner client: run_planner / validate_plan (planner.rs) ----
    request,         \* the PlannerRequest handed to run_planner
    plan,            \* the ProbePlan parsed from the planner's output; plan.options
                     \* is the part of the list the validation loop has iterated over
    vp_pc,           \* position inside validate_plan
    seen,            \* validate_plan: local `seen`
    total_probes,    \* validate_plan: local `total_probes`
    planner_result,  \* what run_planner returns: "pending", "plan" or the error text
    \* ---- per-probe existence classification: classify_attempt (validate.rs) ----
    cl_option,       \* option under test
    cl_attempt,      \* the ExecutionAttempt being classified
    cl_result,       \* the (status, note) pair returned
    \* ---- binding inference: infer_binding ----
    ib_in,           \* the arguments of one call
    ib_out,          \* the verdict returned
    \* ---- probe executor: execute_plan (main.rs) ----
    x_plan,          \* the validated plan being executed
    x_hints,         \* hint_map: option -> form hint
    x_pc,            \* position inside execute_plan
    opt_idx,         \* index of the planned option of the outer loop
    probe_idx,       \* index of the next probe of the inner loop
    existence,       \* local `existence`
    invalid_value,   \* local `invalid_value`
    option_at_end,   \* local `option_at_end`
    surfaces,        \* local `surfaces`, the returned vector
    spawned,         \* every probe child spawned so far, in spawn order
    \* ---- one child invocation: capture_output (main.rs) / run_attempt (validate.rs) ----
    ch_call,         \* which invocation of the target binary this is
    ch_ambient,      \* the environment of the parent process
    ch_command,      \* the std::process::Command being built
    ch_pc,           \* position inside the function
    ch_child,        \* the child process: "none", "running" or "exited"
    ch_env,          \* the environment the child process was started with
    ch_elapsed,      \* wall-clock ticks since the child was spawned
    ch_result,       \* what the function returns
    \* ---- the run of the extractor: cmd_surface (main.rs) ----
    s_run,           \* number of the run of the program (runs follow one another)
    s_pc,            \* position inside cmd_surface
    s_result,        \* "running", "ok", the error text, or "killed"
    s_disk,          \* the four files of the cache directory
    s_disk0,         \* the cache directory as the run found it
    s_log,           \* what this run has done so far, in order
    s_help,          \* the selected help text: "", or the text
    s_nopts,         \* number of options extract_help_options returned
    s_left,          \* planned options execute_plan still has to process
    s_hit,           \* the run took the cache-hit return
    s_plan,          \* the plan and budget each run got from run_planner, "" before
    \* ---- one call of run_planner (planner.rs) ----
    rp_request,      \* the PlannerRequest
    rp_env,          \* BVM_PLANNER_PLAN and BVM_PLANNER_CMD, and what they lead to
    rp_pc,           \* position inside run_planner
    rp_raw,          \* raw_json
    rp_plan,         \* the parsed plan, <<>> before
    rp_result,       \* "pending", "Ok", or the error text
    \* ---- one call of analyze_binding_attempt (validate.rs) ----
    an_option,       \* the option under test
    an_attempt,      \* the ExecutionAttempt
    an_pc,           \* "call" before the call, "done" after
    an_result,       \* the AttemptAnalysis returned
    \* ---- one call of run_command (runner.rs) ----
    rc_limits,       \* the ScenarioLimits
    rc_pc,           \* position of the calling thread inside run_command
    rc_child,        \* the child process: its setup, its state, what it wrote
    rc_pipe,         \* bytes in flight in the stdout and the stderr pipe
    rc_reader,       \* the two reader threads: state and buffer
    rc_elapsed,      \* start.elapsed(), in ticks
    rc_poll,         \* what the polls saw: last try_wait, elapsed and child at the kill
    rc_result,       \* what run_command returns
    \* ---- one call of classify_binding_attempts (validate.rs) ----
    ba_in,           \* the arguments: expectation, missing, with_arg
    ba_out,          \* the (ValidationStatus, Option<String>) returned
    \* ---- execute_plan on one target, as planned and with the stop rules off ----
    sc_plan,         \* the validated ProbePlan
    sc_hints,        \* the help parser's form hint of each option
    sc_outcome,      \* what the target does on each probe type
    sc_done,         \* the calls of execute_plan made so far
    sc_out,          \* what each call returned, and the probes it spawned per option
    \* ---- the exchange of run_planner with the planner process (planner.rs) ----
    pe_left,         \* bytes of request_json write_all has not written yet
    pe_pc,           \* position of run_planner: "write_all", "wait_with_output", "done"
    pe_program,      \* what the planner still does before it exits
    pe_child,        \* "running" or "exited"
    pe_pipe,         \* bytes in flight in the stdin, stdout and stderr pipes
    pe_result,       \* "pending", "returned" or "error"
    \* ---- one call of extract_help_options (help.rs) ----
    he_content,      \* the help text, a sequence of lines
    he_pc,           \* "detect", "rows" inside the loop, "done" after the return
    he_rows,         \* the rows detect_option_rows returned
    he_i,            \* rows the loop has processed
    he_options       \* the `options` vector

plannerVars == <<request, plan, vp_pc, seen, total_probes, planner_result>>
classifyVars == <<cl_option, cl_attempt, cl_result>>
inferVars == <<ib_in, ib_out>>
execVars == <<x_plan, x_hints, x_pc, opt_idx, probe_idx, existence, invalid_value,
              option_at_end, surfaces, spawned>>
childVars == <<ch_call, ch_ambient, ch_command, ch_pc, ch_child, ch_env, ch_elapsed,
               ch_result>>
surfaceVars == <<s_run, s_pc, s_result, s_disk, s_disk0, s_log, s_help, s_nopts, s_left,
                 s_hit, s_plan>>
runPlannerVars == <<rp_request, rp_env, rp_pc, rp_raw, rp_plan, rp_result>>
analyzeVars == <<an_option, an_attempt, an_pc, an_result>>
runCommandVars ==
    <<rc_limits, rc_pc, rc_child, rc_pipe, rc_reader, rc_elapsed, rc_poll, rc_result>>
\* the state of the library functions modelled further down
bindingAttemptsVars == <<ba_in, ba_out>>
stopCompareVars == <<sc_plan, sc_hints, sc_outcome, sc_done, sc_out>>
exchangeVars == <<pe_left, pe_pc, pe_program, pe_child, pe_pipe, pe_result>>
helpVars == <<he_content, he_pc, he_rows, he_i, he_options>>
libVars == <<runCommandVars, bindingAttemptsVars, stopCompareVars, exchangeVars, helpVars>>
vars == <<plannerVars, classifyVars, inferVars, execVars, childVars, surfaceVars,
          runPlannerVars, analyzeVars, libVars>>

None == "none"

(***************************************************************************)
(* Option tokens                                                           *)
(***************************************************************************)
OptA == <<"-", "a">>
OptAll == <<"-", "-", "a", "l", "l">>
OptZz == <<"-", "-", "z", "z">>

\* schema.rs ProbeType
ProbeType == {"Existence", "InvalidValue", "OptionAtEnd"}

\* lists over S of length 0..n
ListsUpTo(S, n) == UNION {[1..k -> S] : k \in 0..n}

RECURSIVE SumLen(_)
SumLen(opts) ==
    IF opts = <<>> THEN 0 ELSE Len(opts[1].probes) + SumLen(Tail(opts))

Range(s) == {s[i] : i \in DOMAIN s}

(***************************************************************************)
(* Planner client                                                          *)
(***************************************************************************)
\* bounds of the planner inputs
MaxProbeList == 2      \* longest probe list a planner output carries
MaxPerOptionArg == 2   \* largest --max-per-option
MaxTotalArg == 3       \* largest --max-total

\* main.rs cmd_surface: the request's stop rules are both true
RequestStopRules == [stop_on_unrecognized |-> TRUE, stop_on_binding_confirmed |-> TRUE]

RequestOptionLists == {<<OptA>>, <<OptA, OptAll>>}

Requests ==
    [options : RequestOptionLists,
     budget : [max_total : 1..MaxTotalArg, max_per_option : 1..MaxPerOptionArg],
     stop_rules : {RequestStopRules}]

\* what a planner may answer: any budget near the requested one, any stop rules
PlanBudgets(req) ==
    {req.budget,
     [req.budget EXCEPT !.max_total = @ + 1],
     [req.budget EXCEPT !.max_per_option = @ + 1]}

StopRuleValues == [stop_on_unrecognized : BOOLEAN, stop_on_binding_confirmed : BOOLEAN]

\* any PlannedOption the planner output may list next
PlannedCandidates ==
    [option : {OptA, OptAll, OptZz}, probes : ListsUpTo(ProbeType, MaxProbeList)]

\* planner.rs:115-119
BudgetMismatch(p, req) ==
    \/ p.budget.max_total # req.budget.max_total
    \/ p.budget.max_per_option # req.budget.max_per_option

\* planner.rs:121-125
StopRulesMismatch(p, req) ==
    \/ p.stop_rules.stop_on_unrecognized # req.stop_rules.stop_on_unrecognized
    \/ p.stop_rules.stop_on_binding_confirmed # req.stop_rules.stop_on_binding_confirmed

\* planner.rs:127
Allowed(req) == Range(req.options)

\* planner.rs:132-156, the checks of one loop iteration in source order;
\* "" when the planned option passes
PlannedOptionError(planned, p, req, seenSoFar) ==
    IF planned.option \notin Allowed(req) THEN "planner returned unknown option"
    ELSE IF planned.option \in seenSoFar THEN "planner returned duplicate option"
    ELSE IF planned.probes = <<>> THEN "planner returned empty probe list"
    ELSE IF planned.probes[1] # "Existence" THEN "planner must start probes with existence"
    ELSE IF Len(planned.probes) > p.budget.max_per_option
         THEN "planner exceeded per-option probe budget"
    ELSE ""

TotalExceeded_Strict(total, p) == total >= p.budget.max_total

\* planner.rs:159-161
TotalExceeded(total, p) == total > p.budget.max_total

\* planner.rs:163-172
CoverageMissing(seenSet, req) == Cardinality(seenSet) # Cardinality(Allowed(req))

InitPlanner ==
    /\ request \in Requests
    /\ plan \in {[planner_version |-> "stub-v1", options |-> <<>>, budget |-> b,
                  stop_rules |-> s] : b \in PlanBudgets(request), s \in StopRuleValues}
    /\ vp_pc = "budget"
    /\ seen = {}
    /\ total_probes = 0
    /\ planner_result = "pending"

\* validate_plan returns Err(msg): run_planner propagates it with `?`
\* (planner.rs:63, 102)
VpFail(msg) ==
    /\ vp_pc' = "done"
    /\ planner_result' = msg

VpBudget ==
    /\ vp_pc = "budget"
    /\ IF BudgetMismatch(plan, request)
       THEN VpFail("planner budget does not match requested budget")
       ELSE vp_pc' = "stop_rules" /\ UNCHANGED planner_result
    /\ UNCHANGED <<request, plan, seen, total_probes>>
    /\ UNCHANGED <<classifyVars, inferVars, execVars, childVars, surfaceVars, runPlannerVars,
                 analyzeVars, libVars>>

VpStopRules ==
    /\ vp_pc = "stop_rules"
    /\ IF StopRulesMismatch(plan, request)
       THEN VpFail("planner stop rules do not match requested stop rules")
       ELSE vp_pc' = "loop" /\ UNCHANGED planner_result
    /\ UNCHANGED <<request, plan, seen, total_probes>>
    /\ UNCHANGED <<classifyVars, inferVars, execVars, childVars, surfaceVars, runPlannerVars,
                 analyzeVars, libVars>>

\* one iteration of `for planned in &plan.options`
VpLoopStep ==
    /\ vp_pc = "loop"
    /\ \E planned \in PlannedCandidates :
        LET err == PlannedOptionError(planned, plan, request, seen) IN
        /\ plan' = [plan EXCEPT !.options = Append(@, planned)]
        /\ IF err # ""
           THEN VpFail(err) /\ UNCHANGED <<seen, total_probes>>
           ELSE /\ seen' = seen \cup {planned.option}
                /\ total_probes' = total_probes + Len(planned.probes)
                /\ UNCHANGED <<vp_pc, planner_result>>
    /\ UNCHANGED request
    /\ UNCHANGED <<classifyVars, inferVars, execVars, childVars, surfaceVars, runPlannerVars,
                 analyzeVars, libVars>>

\* the list is exhausted: the checks after the loop, then Ok(())
VpAfterLoop ==
    /\ vp_pc = "loop"
    /\ IF TotalExceeded(total_probes, plan)
       THEN VpFail("planner exceeded total probe budget")
       ELSE IF CoverageMissing(seen, request)
       THEN VpFail("planner did not cover all options")
       ELSE vp_pc' = "done" /\ planner_result' = "plan"
    /\ UNCHANGED <<request, plan, seen, total_probes>>
    /\ UNCHANGED <<classifyVars, inferVars, execVars, childVars, surfaceVars, runPlannerVars,
                 analyzeVars, libVars>>

NextPlanner ==
    \/ VpBudget
    \/ VpStopRules
    \/ VpLoopStep
    \/ VpAfterLoop

(***************************************************************************)
(* C1  Every plan validate_plan accepts has the request's budget and stop  *)
(* rules, lists only requested options, each exactly once, gives each a    *)
(* non-empty probe list starting with Existence of at most max_per_option  *)
(* probes, at most max_total probes in all, and covers the request's       *)
(* option set; run_planner returns an error for every other plan.          *)
(***************************************************************************)
PlanConforms(p, req) ==
    /\ p.budget = req.budget
    /\ p.stop_rules = req.stop_rules
    /\ \A i \in DOMAIN p.options :
        /\ \E j \in DOMAIN req.options : req.options[j] = p.options[i].option
        /\ \A j \in DOMAIN p.options : p.options[j].option = p.options[i].option => j = i
        /\ Len(p.options[i].probes) >= 1
        /\ Head(p.options[i].probes) = "Existence"
        /\ Len(p.options[i].probes) <= req.budget.max_per_option
    /\ SumLen(p.options) <= req.budget.max_total
    /\ {p.options[i].option : i \in DOMAIN p.options}
         = {req.options[j] : j \in DOMAIN req.options}

C1_AcceptedPlansConform ==
    planner_result # "pending" =>
        (planner_result = "plan" <=> PlanConforms(plan, request))

C1_Witness ==
    /\ planner_result = "plan"
    /\ Len(plan.options) = 2
    /\ SumLen(plan.options) = 3

(***************************************************************************)
(* Captured output of a probe child                                        *)
(*                                                                         *)
(* The text a child writes is a sequence of fragments.  A fragment is one  *)
(* diagnostic phrase with the token written in its place holder {} (tok is *)
(* <<>> when the text ends where the token would be).  MarkersIn lists the *)
(* marker substrings of validate.rs:49-99 each lower-cased phrase          *)
(* contains; the extractors below say which capture group of which regex   *)
(* of validate.rs:689-829 picks up the token.                              *)
(***************************************************************************)
PhUnrecognized == "error: unrecognized option '{}'"
PhGetoptInvalid == "invalid option -- '{}'"
PhAmbiguous == "ambiguous option '{}'"
PhRequiresArg == "option '{}' requires an argument"
PhGetoptRequires == "option requires an argument -- '{}'"
PhNotAllowed == "option '{}' doesn't allow an argument"
PhInvalidArg == "invalid argument '__bvm__' for '{}'"
PhMissingBare == "error: missing argument"
PhUsage == "usage: tool [option]"
PhPlain == "file1"

MarkersIn(phrase) ==
    CASE phrase = PhUnrecognized -> {"unrecognized option"}
      [] phrase = PhGetoptInvalid -> {"invalid option"}
      [] phrase = PhAmbiguous -> {"ambiguous option"}
      [] phrase = PhRequiresArg -> {"requires an argument"}
      [] phrase = PhGetoptRequires -> {"requires an argument", "option requires an argument"}
      [] phrase = PhNotAllowed -> {"doesn't allow an argument"}
      [] phrase = PhInvalidArg -> {"invalid argument"}
      [] phrase = PhMissingBare -> {"missing argument"}
      [] phrase = PhUsage -> {"usage:"}
      [] OTHER -> {}

\* validate.rs:49-59
UNRECOGNIZED_MARKERS ==
    <<"unrecognized option", "unknown option", "invalid option", "illegal option",
      "unknown flag", "unrecognized flag", "invalid flag", "unknown switch",
      "invalid switch">>

\* validate.rs:61
AMBIGUOUS_MARKERS == <<"ambiguous option", "option is ambiguous">>

\* validate.rs:63-71
ARGUMENT_ERROR_MARKERS ==
    <<"requires an argument", "requires a value", "option requires an argument",
      "option requires a value", "missing argument", "missing value", "invalid argument">>

\* validate.rs:356-361: stdout followed by stderr
OutputOf(attempt) == attempt.stdout \o attempt.stderr

\* str::contains on the lower-cased output
OutputContains(output, marker) ==
    \E i \in DOMAIN output : marker \in MarkersIn(output[i].phrase)

\* validate.rs:678-683: the first marker of the table the output contains
find_marker(output, markers) ==
    IF \E k \in DOMAIN markers : OutputContains(output, markers[k])
    THEN markers[CHOOSE k \in DOMAIN markers :
            /\ OutputContains(output, markers[k])
            /\ \A j \in 1..(k - 1) : ~OutputContains(output, markers[j])]
    ELSE None

\* validate.rs:685-687
contains_any(output, markers) ==
    \E k \in DOMAIN markers : OutputContains(output, markers[k])

\* char::to_lowercase on the letters the tokens use
LowerChar(c) ==
    CASE c = "A" -> "a"
      [] c = "L" -> "l"
      [] c = "Z" -> "z"
      [] OTHER -> c

\* str::to_lowercase
to_lowercase(t) == [i \in DOMAIN t |-> LowerChar(t[i])]

TrimChars == {",", ";", ":", ".", ")", "]", "("}

RECURSIVE TrimStart(_)
TrimStart(t) ==
    IF t # <<>> /\ Head(t) \in TrimChars THEN TrimStart(Tail(t)) ELSE t

RECURSIVE TrimEnd(_)
TrimEnd(t) ==
    IF t # <<>> /\ t[Len(t)] \in TrimChars THEN TrimEnd(SubSeq(t, 1, Len(t) - 1)) ELSE t

\* validate.rs:831-835
clean_option_token(token) == TrimEnd(TrimStart(token))

\* validate.rs:698, 727, ...: `cleaned.is_empty() || cleaned == "-" || cleaned == "--"`
Discarded(cleaned) == cleaned = <<>> \/ cleaned = <<"-">> \/ cleaned = <<"-", "-">>

OptionMatches_NoShortLetter(reported, tested) == to_lowercase(reported) = to_lowercase(tested)

\* validate.rs:837-847
option_matches(reported, tested) ==
    LET r == to_lowercase(reported)
        t == to_lowercase(tested)
    IN IF r = t THEN TRUE
       ELSE IF Len(r) = 1 /\ Len(t) = 2 /\ Head(t) = "-" THEN t[2] = r[1]
       ELSE FALSE

\* the tokens one regex captures, in text order: `phrases` are the phrases the
\* regex matches, the token being its capture group 1
RECURSIVE Captures(_, _)
Captures(output, phrases) ==
    IF output = <<>> THEN <<>>
    ELSE IF Head(output).phrase \in phrases /\ Head(output).tok # <<>>
         THEN <<Head(output).tok>> \o Captures(Tail(output), phrases)
         ELSE Captures(Tail(output), phrases)

\* the loop body shared by the direct regexes: clean, drop empty / "-" / "--"
RECURSIVE CleanAll(_)
CleanAll(tokens) ==
    IF tokens = <<>> THEN <<>>
    ELSE IF Discarded(clean_option_token(Head(tokens)))
         THEN CleanAll(Tail(tokens))
         ELSE <<clean_option_token(Head(tokens))>> \o CleanAll(Tail(tokens))

\* validate.rs:704-713, 757-766: the getopt form yields "-" followed by the letter
RECURSIVE DashAll(_)
DashAll(tokens) ==
    IF tokens = <<>> THEN <<>>
    ELSE <<<<"-", Head(tokens)[1]>>>> \o DashAll(Tail(tokens))

\* validate.rs:689-716.  In "invalid option -- 'x'" the direct regex captures
\* "--" (dropped as "--"); the getopt regex captures the letter.
extract_reported_options(output) ==
    CleanAll(Captures(output, {PhUnrecognized}))
        \o DashAll(Captures(output, {PhGetoptInvalid}))

(***************************************************************************)
(* Per-probe existence classification                                      *)
(***************************************************************************)
\* a note (Option<String>) is a sequence of texts, joined with "; " in the
\* source; <<>> is no note
NoteSpawnFailed(err) == <<"spawn failed: ", err>>
NoteNoExitCode == <<"terminated without exit code">>
NoteUnattributed(marker) == <<"unrecognized option marker without option attribution", marker>>
NoteMismatch(marker) == <<"unrecognized option marker for reported", marker>>
NoteAmbiguous(marker) == <<"ambiguous option response", marker>>

classify_attempt_DowngradeOnExit(option, attempt) ==
    IF attempt.spawn_error # None
    THEN [status |-> "Undetermined", note |-> NoteSpawnFailed(attempt.spawn_error)]
    ELSE IF attempt.exit_code = <<>>
    THEN [status |-> "Undetermined", note |-> NoteNoExitCode]
    ELSE IF find_marker(OutputOf(attempt), UNRECOGNIZED_MARKERS) # None
    THEN IF \E i \in DOMAIN extract_reported_options(OutputOf(attempt)) :
                option_matches(extract_reported_options(OutputOf(attempt))[i], option)
         THEN [status |-> "Refuted", note |-> <<>>]
         ELSE [status |-> "Undetermined", note |-> <<"unrecognized option marker">>]
    ELSE IF find_marker(OutputOf(attempt), AMBIGUOUS_MARKERS) # None
    THEN [status |-> "Undetermined", note |-> <<"ambiguous option response">>]
    ELSE IF attempt.exit_code # <<0>>
    THEN [status |-> "Undetermined", note |-> <<"nonzero exit">>]
    ELSE [status |-> "Confirmed", note |-> <<>>]

classify_attempt_SpawnErrorRefuted(option, attempt) ==
    LET output == OutputOf(attempt)
        unrec == find_marker(output, UNRECOGNIZED_MARKERS)
        ambig == find_marker(output, AMBIGUOUS_MARKERS)
        reported == extract_reported_options(output)
        notes == (IF attempt.exit_code # <<0>>
                  THEN <<"nonzero exit without unrecognized option marker">> ELSE <<>>)
                 \o (IF contains_any(output, ARGUMENT_ERROR_MARKERS)
                     THEN <<"argument error reported">> ELSE <<>>)
    IN
    IF attempt.spawn_error # None \/ attempt.exit_code = <<>>
    THEN [status |-> "Refuted", note |-> <<>>]
    ELSE IF unrec # None
    THEN IF \E i \in DOMAIN reported : option_matches(reported[i], option)
         THEN [status |-> "Refuted", note |-> <<>>]
         ELSE [status |-> "Undetermined",
               note |-> IF reported = <<>> THEN NoteUnattributed(unrec)
                        ELSE NoteMismatch(unrec)]
    ELSE IF ambig # None
    THEN [status |-> "Undetermined", note |-> NoteAmbiguous(ambig)]
    ELSE [status |-> "Confirmed", note |-> notes]

\* validate.rs:338-403
classify_attempt(option, attempt) ==
    LET output == OutputOf(attempt)
        unrec == find_marker(output, UNRECOGNIZED_MARKERS)
        ambig == find_marker(output, AMBIGUOUS_MARKERS)
        reported == extract_reported_options(output)
        notes == (IF attempt.exit_code # <<0>>
                  THEN <<"nonzero exit without unrecognized option marker">> ELSE <<>>)
                 \o (IF contains_any(output, ARGUMENT_ERROR_MARKERS)
                     THEN <<"argument error reported">> ELSE <<>>)
    IN
    IF attempt.spawn_error # None
    THEN [status |-> "Undetermined", note |-> NoteSpawnFailed(attempt.spawn_error)]
    ELSE IF attempt.exit_code = <<>>
    THEN [status |-> "Undetermined", note |-> NoteNoExitCode]
    ELSE IF unrec # None
    THEN IF \E i \in DOMAIN reported : option_matches(reported[i], option)
         THEN [status |-> "Refuted", note |-> <<>>]
         ELSE [status |-> "Undetermined",
               note |-> IF reported = <<>> THEN NoteUnattributed(unrec)
                        ELSE NoteMismatch(unrec)]
    ELSE IF ambig # None
    THEN [status |-> "Undetermined", note |-> NoteAmbiguous(ambig)]
    ELSE [status |-> "Confirmed", note |-> notes]

\* bounds of the classified attempts
MaxOutputLen == 2      \* fragments in stdout and stderr together

\* reported tokens a diagnostic may carry
LongTokens == {OptAll, <<"-", "-", "A", "L", "L">>, <<"-", "-", "a", "l", "l", ".">>,
               OptA, OptZz, <<"-", "-">>, <<>>}
LetterTokens == {<<"a">>, <<"z">>}

Fragments ==
    [phrase : {PhUnrecognized}, tok : LongTokens]
    \cup [phrase : {PhGetoptInvalid}, tok : LetterTokens]
    \cup [phrase : {PhAmbiguous}, tok : {OptAll}]
    \cup [phrase : {PhRequiresArg}, tok : {OptAll, OptZz}]
    \cup [phrase : {PhUsage, PhPlain}, tok : {<<>>}]

\* Option<i32> as a sequence of at most one element: std::process::ExitStatus::code()
\* is absent when the child was killed by a signal
ExitCodes == {<<>>, <<0>>, <<2>>}

Attempts ==
    {[args |-> <<>>, exit_code |-> <<>>, stdout |-> <<>>, stderr |-> <<>>,
      spawn_error |-> "boom"]}
    \cup {a \in [args : {<<>>}, exit_code : ExitCodes,
                 stdout : ListsUpTo(Fragments, MaxOutputLen),
                 stderr : ListsUpTo(Fragments, MaxOutputLen),
                 spawn_error : {None}] :
            Len(a.stdout) + Len(a.stderr) <= MaxOutputLen}

TestedOptions == {OptA, OptAll}

NoAttempt ==
    [args |-> <<>>, exit_code |-> <<>>, stdout |-> <<>>, stderr |-> <<>>, spawn_error |-> None]

InitClassify ==
    /\ cl_option \in TestedOptions
    /\ cl_attempt \in Attempts
    /\ cl_result = [status |-> "pending", note |-> <<>>]

\* the call classify_attempt(option, &attempt)
Classify ==
    /\ cl_result.status = "pending"
    /\ cl_result' = classify_attempt(cl_option, cl_attempt)
    /\ UNCHANGED <<cl_option, cl_attempt>>
    /\ UNCHANGED <<plannerVars, inferVars, execVars, childVars, surfaceVars, runPlannerVars,
                 analyzeVars, libVars>>

NextClassify == Classify

(***************************************************************************)
(* C2  classify_attempt is a priority decision: spawn failure, then no     *)
(* exit code, then an unrecognized marker (Refuted iff a reported option   *)
(* matches the option under test, else Undetermined with a note), then an  *)
(* ambiguous marker, else Confirmed whatever the exit code and whether or  *)
(* not an argument-error marker is present.                                *)
(***************************************************************************)
HasMarkerOf(attempt, markers) ==
    \E i \in DOMAIN OutputOf(attempt), k \in DOMAIN markers :
        markers[k] \in MarkersIn(OutputOf(attempt)[i].phrase)

ReportedMatches(option, attempt) ==
    \E i \in DOMAIN extract_reported_options(OutputOf(attempt)) :
        option_matches(extract_reported_options(OutputOf(attempt))[i], option)

C2_ClassifyPriority ==
    cl_result.status # "pending" =>
        IF cl_attempt.spawn_error # None
        THEN cl_result = [status |-> "Undetermined",
                          note |-> <<"spawn failed: ", cl_attempt.spawn_error>>]
        ELSE IF cl_attempt.exit_code = <<>>
        THEN cl_result = [status |-> "Undetermined",
                          note |-> <<"terminated without exit code">>]
        ELSE IF HasMarkerOf(cl_attempt, UNRECOGNIZED_MARKERS)
        THEN /\ cl_result.status = "Refuted" <=> ReportedMatches(cl_option, cl_attempt)
             /\ ~ReportedMatches(cl_option, cl_attempt) =>
                    cl_result.status = "Undetermined" /\ cl_result.note # <<>>
        ELSE IF HasMarkerOf(cl_attempt, AMBIGUOUS_MARKERS)
        THEN cl_result.status = "Undetermined"
        ELSE cl_result.status = "Confirmed"

\* Confirmed although the child exited non-zero and reported an argument error
C2_Witness ==
    /\ cl_result.status # "pending"
    /\ cl_result.status = "Confirmed"
    /\ cl_attempt.exit_code = <<2>>
    /\ HasMarkerOf(cl_attempt, ARGUMENT_ERROR_MARKERS)
    /\ cl_result.note # <<>>

(***************************************************************************)
(* AttemptAnalysis: the signals of one probe                               *)
(***************************************************************************)
\* validate.rs:718-769
extract_missing_argument_options(output) ==
    CleanAll(Captures(output, {PhRequiresArg}))
        \o DashAll(Captures(output, {PhGetoptRequires}))

\* validate.rs:771-811
extract_argument_not_allowed_options(output) ==
    CleanAll(Captures(output, {PhNotAllowed}))

\* validate.rs:813-829
extract_invalid_argument_options(output) ==
    CleanAll(Captures(output, {PhInvalidArg}))

AnyMatches(reported, option) ==
    \E i \in DOMAIN reported : option_matches(reported[i], option)

\* validate.rs:483-579: the option-attributed signals (notes left out)
analyze_binding_attempt(option, attempt) ==
    LET output == OutputOf(attempt) IN
    IF attempt.spawn_error # None
    THEN [unrecognized |-> FALSE, missing_arg |-> FALSE, arg_not_allowed |-> FALSE,
          invalid_arg |-> FALSE, ambiguous |-> FALSE, exit_code |-> attempt.exit_code]
    ELSE [unrecognized |->
              /\ find_marker(output, UNRECOGNIZED_MARKERS) # None
              /\ AnyMatches(extract_reported_options(output), option),
          missing_arg |-> AnyMatches(extract_missing_argument_options(output), option),
          arg_not_allowed |->
              AnyMatches(extract_argument_not_allowed_options(output), option),
          invalid_arg |-> AnyMatches(extract_invalid_argument_options(output), option),
          ambiguous |-> find_marker(output, AMBIGUOUS_MARKERS) # None,
          exit_code |-> attempt.exit_code]

\* the AttemptAnalysis of the surface extractor: the signals above plus
\* help_like (output contains "usage:") and argument_error (a generic
\* argument-error marker is present)
probe_analysis(option, attempt) ==
    LET a == analyze_binding_attempt(option, attempt) IN
    [unrecognized |-> a.unrecognized, missing_arg |-> a.missing_arg,
     arg_not_allowed |-> a.arg_not_allowed, invalid_arg |-> a.invalid_arg,
     ambiguous |-> a.ambiguous,
     help_like |-> attempt.spawn_error = None /\ OutputContains(OutputOf(attempt), "usage:"),
     argument_error |->
         attempt.spawn_error = None /\ contains_any(OutputOf(attempt), ARGUMENT_ERROR_MARKERS),
     exit_code |-> a.exit_code]

(***************************************************************************)
(* Binding inference                                                       *)
(***************************************************************************)
Verdict(status, kind, reason) == [status |-> status, kind |-> kind, reason |-> reason]

\* an Option<&AttemptAnalysis> is a sequence of at most one analysis
infer_binding_EndFirst(missing, invalid, end, form_hint) ==
    IF missing.unrecognized \/ invalid.unrecognized
    THEN Verdict("Undetermined", None, "unrecognized option response")
    ELSE IF missing.ambiguous \/ invalid.ambiguous
    THEN Verdict("Undetermined", None, "ambiguous option response")
    ELSE IF end # <<>> /\ end[1].missing_arg /\ end[1].exit_code # <<0>>
    THEN Verdict("Confirmed", "Required",
                 "missing argument response observed (option at end probe)")
    ELSE IF missing.missing_arg \/ missing.invalid_arg
    THEN Verdict("Confirmed", "Required", "missing argument response observed")
    ELSE IF invalid.invalid_arg
    THEN Verdict("Confirmed", "Optional", "invalid argument response observed")
    ELSE IF invalid.arg_not_allowed
    THEN Verdict("Confirmed", "NoValue", "argument not allowed response observed")
    ELSE Verdict("Undetermined", None, "insufficient binding evidence")

infer_binding_ConfirmOnSignal(missing, invalid, end, form_hint) ==
    IF missing.missing_arg
    THEN Verdict("Confirmed", "Required", "missing argument response observed")
    ELSE IF invalid.arg_not_allowed
    THEN Verdict("Confirmed", "NoValue", "argument not allowed response observed")
    ELSE IF missing.unrecognized \/ invalid.unrecognized
    THEN Verdict("Undetermined", None, "unrecognized option response")
    ELSE IF missing.ambiguous \/ invalid.ambiguous
    THEN Verdict("Undetermined", None, "ambiguous option response")
    ELSE Verdict("Undetermined", None, "insufficient binding evidence")

\* the decision list of the inference engine, rules 2 to 10
infer_binding(missing, invalid, end, form_hint) ==
    IF missing.unrecognized \/ invalid.unrecognized
    THEN Verdict("Undetermined", None, "unrecognized option response")
    ELSE IF missing.ambiguous \/ invalid.ambiguous
    THEN Verdict("Undetermined", None, "ambiguous option response")
    ELSE IF missing.missing_arg
    THEN Verdict("Confirmed", "Required", "missing argument response observed")
    ELSE IF missing.invalid_arg
    THEN Verdict("Confirmed", "Required",
                 "invalid argument response observed for missing probe")
    ELSE IF invalid.arg_not_allowed
    THEN Verdict("Confirmed", "NoValue", "argument not allowed response observed")
    ELSE IF invalid.invalid_arg
    THEN IF ~missing.help_like /\ invalid.help_like
         THEN Verdict("Confirmed", "Required",
                      "missing probe likely consumed --help; invalid argument observed")
         ELSE Verdict("Confirmed", "Optional", "invalid argument response observed")
    ELSE IF /\ missing.exit_code = <<0>> /\ invalid.exit_code = <<0>>
            /\ ~missing.argument_error /\ ~invalid.argument_error
    THEN IF form_hint = "Attached"
         THEN Verdict("Confirmed", "Optional",
                      "no argument errors detected with attached value")
         ELSE Verdict("Undetermined", None,
                      "no argument errors detected with trailing value")
    ELSE IF end # <<>> /\ end[1].missing_arg /\ end[1].exit_code # <<0>>
    THEN Verdict("Confirmed", "Required",
                 "missing argument response observed (option at end probe)")
    ELSE Verdict("Undetermined", None, "insufficient binding evidence")

\* bounds of the analyses handed to infer_binding
MaxSignals == 2        \* signals set at once in one analysis

SignalNames == {"unrecognized", "missing_arg", "arg_not_allowed", "invalid_arg",
                "ambiguous", "help_like", "argument_error"}

AnalysisWith(sigs, code) ==
    [unrecognized |-> "unrecognized" \in sigs, missing_arg |-> "missing_arg" \in sigs,
     arg_not_allowed |-> "arg_not_allowed" \in sigs, invalid_arg |-> "invalid_arg" \in sigs,
     ambiguous |-> "ambiguous" \in sigs, help_like |-> "help_like" \in sigs,
     argument_error |-> "argument_error" \in sigs, exit_code |-> code]

Analyses ==
    {AnalysisWith(sigs, code) :
        sigs \in {t \in SUBSET SignalNames : Cardinality(t) <= MaxSignals},
        code \in ExitCodes}

\* the option-at-end analysis: absent, or one whose missing_arg and exit code vary
EndAnalyses ==
    {<<>>} \cup {<<AnalysisWith(sigs, code)>> :
                    sigs \in SUBSET {"missing_arg"}, code \in ExitCodes}

\* help.rs ValueForm, or None when the parser gave no hint
FormHints == {None, "Attached", "Trailing"}

PendingVerdict == Verdict("pending", None, "")

InitInfer ==
    /\ ib_in \in [missing : Analyses, invalid : Analyses, end : EndAnalyses,
                  form_hint : FormHints]
    /\ ib_out = PendingVerdict

\* the call infer_binding(missing, invalid, end, form_hint)
Infer ==
    /\ ib_out.status = "pending"
    /\ ib_out' = infer_binding(ib_in.missing, ib_in.invalid, ib_in.end, ib_in.form_hint)
    /\ UNCHANGED ib_in
    /\ UNCHANGED <<plannerVars, classifyVars, execVars, childVars, surfaceVars, runPlannerVars,
                 analyzeVars, libVars>>

NextInfer == Infer

(***************************************************************************)
(* C3  Binding inference is a first-match-wins decision list: with no      *)
(* unrecognized or ambiguous signal in either probe, the verdict is given  *)
(* by the first rule that matches, and a kind is present exactly when the  *)
(* status is Confirmed.                                                    *)
(***************************************************************************)
C3_Is(status, kind) == ib_out.status = status /\ ib_out.kind = kind

C3_DecisionList ==
    LET m == ib_in.missing
        i == ib_in.invalid
        e == ib_in.end
        r1 == m.missing_arg
        r2 == m.invalid_arg
        r3 == i.arg_not_allowed
        r4 == i.invalid_arg
        r5 == /\ m.exit_code = <<0>> /\ i.exit_code = <<0>>
              /\ ~m.argument_error /\ ~i.argument_error
        r6 == e # <<>> /\ e[1].missing_arg /\ e[1].exit_code # <<0>>
    IN
    (/\ ib_out.status # "pending"
     /\ ~(m.unrecognized \/ i.unrecognized \/ m.ambiguous \/ i.ambiguous)) =>
        /\ r1 => C3_Is("Confirmed", "Required")
        /\ (~r1 /\ r2) => C3_Is("Confirmed", "Required")
        /\ (~r1 /\ ~r2 /\ r3) => C3_Is("Confirmed", "NoValue")
        /\ (~r1 /\ ~r2 /\ ~r3 /\ r4) =>
              IF ~m.help_like /\ i.help_like
              THEN C3_Is("Confirmed", "Required")
              ELSE C3_Is("Confirmed", "Optional")
        /\ (~r1 /\ ~r2 /\ ~r3 /\ ~r4 /\ r5) =>
              IF ib_in.form_hint = "Attached"
              THEN C3_Is("Confirmed", "Optional")
              ELSE C3_Is("Undetermined", None)
        /\ (~r1 /\ ~r2 /\ ~r3 /\ ~r4 /\ ~r5 /\ r6) => C3_Is("Confirmed", "Required")
        /\ (~r1 /\ ~r2 /\ ~r3 /\ ~r4 /\ ~r5 /\ ~r6) => C3_Is("Undetermined", None)
        /\ ib_out.kind # None <=> ib_out.status = "Confirmed"

\* an earlier rule wins over a later one that also matches: the invalid-value
\* probe reports arg_not_allowed (rule NoValue) while the option-at-end probe
\* reports a missing argument (rule Required)
C3_Witness ==
    /\ ib_out.status = "Confirmed"
    /\ ib_out.kind = "NoValue"
    /\ ib_in.invalid.arg_not_allowed
    /\ ib_in.end # <<>>
    /\ ib_in.end[1].missing_arg
    /\ ib_in.end[1].exit_code = <<2>>

(***************************************************************************)
(* C4  When either analysis has unrecognized set, or either has ambiguous  *)
(* set, the binding verdict is Undetermined with no kind and the matching  *)
(* reason, whatever other signals are set.                                 *)
(***************************************************************************)
C4_SignalShortCircuit ==
    LET m == ib_in.missing
        i == ib_in.invalid
    IN
    ib_out.status # "pending" =>
        /\ (m.unrecognized \/ i.unrecognized) =>
              ib_out = Verdict("Undetermined", None, "unrecognized option response")
        /\ (~(m.unrecognized \/ i.unrecognized) /\ (m.ambiguous \/ i.ambiguous)) =>
              ib_out = Verdict("Undetermined", None, "ambiguous option response")

\* the invalid-value probe is unrecognized while the existence probe reports a
\* missing argument
C4_Witness ==
    /\ ib_out.status = "Undetermined"
    /\ ib_in.invalid.unrecognized
    /\ ib_in.missing.missing_arg
    /\ ib_in.invalid.arg_not_allowed

(***************************************************************************)
(* Probe executor: execute_plan                                            *)
(***************************************************************************)
\* main.rs:54, the default of --max-per-option
MaxPerOption == 3
\* bound of the executed plans
ExecMaxTotal == 3      \* --max-total of the run

HelpArg == <<"-", "-", "h", "e", "l", "p">>
\* validate.rs:101 BINDING_DUMMY_VALUE
Dummy == <<"_", "_", "b", "v", "m", "_", "_">>

StartsWithDashDash(option) == Len(option) >= 2 /\ option[1] = "-" /\ option[2] = "-"

\* argv of the three probes
ExistenceArgs(option) == <<option, HelpArg>>

InvalidValueArgs_DefaultOnly(option, form_hint) ==
    IF StartsWithDashDash(option)
    THEN <<option \o <<"=">> \o Dummy, HelpArg>>
    ELSE <<option, Dummy, HelpArg>>

InvalidValueArgs(option, form_hint) ==
    IF form_hint = "Attached" \/ (form_hint = None /\ StartsWithDashDash(option))
    THEN <<option \o <<"=">> \o Dummy, HelpArg>>
    ELSE <<option, Dummy, HelpArg>>
OptionAtEndArgs(option) == <<option>>

ProbeArgs(probe, option, form_hint) ==
    CASE probe = "Existence" -> ExistenceArgs(option)
      [] probe = "InvalidValue" -> InvalidValueArgs(option, form_hint)
      [] probe = "OptionAtEnd" -> OptionAtEndArgs(option)

Frag(phrase, tok) == [phrase |-> phrase, tok |-> tok]

ChildRun(code, out, err) ==
    [args |-> <<>>, exit_code |-> code, stdout |-> out, stderr |-> err, spawn_error |-> None]

\* what the child of one probe of `option` may do: not spawned, killed by a
\* signal before writing anything, or exited after writing its text
ExecAttempts(option) ==
    {[args |-> <<>>, exit_code |-> <<>>, stdout |-> <<>>, stderr |-> <<>>,
      spawn_error |-> "boom"],
     ChildRun(<<>>, <<>>, <<>>),
     ChildRun(<<0>>, <<Frag(PhPlain, <<>>)>>, <<>>),
     ChildRun(<<2>>, <<>>, <<Frag(PhUnrecognized, option)>>),
     ChildRun(<<2>>, <<>>, <<Frag(PhRequiresArg, option)>>),
     ChildRun(<<2>>, <<>>, <<Frag(PhNotAllowed, option)>>),
     ChildRun(<<2>>, <<Frag(PhUsage, <<>>)>>, <<Frag(PhInvalidArg, option)>>)}

\* Evidence of one probe; seq is the position of the probe in `spawned`
EvidenceOf(attempt, probe, seq) ==
    [args |-> attempt.args, exit_code |-> attempt.exit_code, probe |-> probe, seq |-> seq]

\* ProbeRun { analysis, evidence }
ProbeRunOf(option, attempt, probe, seq) ==
    [analysis |-> probe_analysis(option, attempt),
     evidence |-> EvidenceOf(attempt, probe, seq)]

\* run_existence_probe: (status, reason, run)
ExistenceOf(option, attempt, seq) ==
    LET c == classify_attempt(option, attempt) IN
    [status |-> c.status, reason |-> c.note,
     run |-> ProbeRunOf(option, attempt, "Existence", seq)]

\* Option<T> as a sequence of at most one element
AnalysisOpt(run) == IF run = <<>> THEN <<>> ELSE <<run[1].analysis>>

StopOnUnrecognized_Never(p, exist) == FALSE

\* main.rs:216-222
StopOnUnrecognized(p, exist) ==
    /\ p.stop_rules.stop_on_unrecognized
    /\ exist # <<>>
    /\ exist[1].status = "Refuted"

StopOnBindingConfirmed_IgnoreKind(p, exist, invalid, end, form_hint) ==
    /\ p.stop_rules.stop_on_binding_confirmed
    /\ exist # <<>>
    /\ exist[1].status = "Confirmed"

\* main.rs:224-240
StopOnBindingConfirmed(p, exist, invalid, end, form_hint) ==
    /\ p.stop_rules.stop_on_binding_confirmed
    /\ exist # <<>> /\ invalid # <<>>
    /\ exist[1].status = "Confirmed"
    /\ LET v == infer_binding(exist[1].run.analysis, invalid[1].analysis,
                              AnalysisOpt(end), form_hint)
       IN v.status = "Confirmed" /\ v.kind # None

\* main.rs:243-261
ExistenceResult(exist) ==
    [status |-> IF exist # <<>> THEN exist[1].status ELSE "Undetermined",
     reason |-> IF exist # <<>> THEN exist[1].reason ELSE <<"existence probe not run">>,
     evidence |-> IF exist # <<>> THEN <<exist[1].run.evidence>> ELSE <<>>]

BindingEvidence_ExistenceTwice(exist, invalid, end) ==
    (IF exist # <<>> THEN <<exist[1].run.evidence, exist[1].run.evidence>> ELSE <<>>)
    \o (IF invalid # <<>> THEN <<invalid[1].evidence>> ELSE <<>>)
    \o (IF end # <<>> THEN <<end[1].evidence>> ELSE <<>>)

\* main.rs:263-272
BindingEvidence(exist, invalid, end) ==
    (IF exist # <<>> THEN <<exist[1].run.evidence>> ELSE <<>>)
    \o (IF invalid # <<>> THEN <<invalid[1].evidence>> ELSE <<>>)
    \o (IF end # <<>> THEN <<end[1].evidence>> ELSE <<>>)

BindingVerdict_InferFirst(exist, invalid, end, form_hint) ==
    IF exist # <<>> /\ invalid # <<>>
    THEN infer_binding(exist[1].run.analysis, invalid[1].analysis, AnalysisOpt(end),
                       form_hint)
    ELSE Verdict("Undetermined", None, "option existence not confirmed")

\* main.rs:274-296
BindingVerdict(exist, invalid, end, form_hint) ==
    IF ExistenceResult(exist).status # "Confirmed"
    THEN Verdict("Undetermined", None, "option existence not confirmed")
    ELSE IF exist # <<>> /\ invalid # <<>>
    THEN infer_binding(exist[1].run.analysis, invalid[1].analysis, AnalysisOpt(end),
                       form_hint)
    ELSE Verdict("Undetermined", None, "invalid-value probe not run")

\* main.rs:298-309
OptionSurface(option, exist, invalid, end, form_hint) ==
    LET v == BindingVerdict(exist, invalid, end, form_hint) IN
    [option |-> option,
     existence |-> ExistenceResult(exist),
     binding |-> [status |-> v.status, kind |-> v.kind, reason |-> v.reason,
                  evidence |-> BindingEvidence(exist, invalid, end)]]

\* the requests of the runs (main.rs:88-112): one or two detected options
ExecRequests(stops) ==
    [options : RequestOptionLists,
     budget : {[max_total |-> ExecMaxTotal, max_per_option |-> MaxPerOption]},
     stop_rules : stops]

\* the probe lists validate_plan lets through
ValidProbeLists(req) ==
    {<<"Existence">> \o rest : rest \in ListsUpTo(ProbeType, req.budget.max_per_option - 1)}

ValidPlans_TotalUnchecked(req) ==
    {p \in [planner_version : {"stub-v1"},
            options : ListsUpTo([option : Allowed(req), probes : ValidProbeLists(req)],
                                Len(req.options)),
            budget : {req.budget},
            stop_rules : {req.stop_rules}] :
        /\ Len(p.options) = Cardinality(Allowed(req))
        /\ {p.options[i].option : i \in DOMAIN p.options} = Allowed(req)}

\* the plans run_planner returns for the request: those validate_plan accepts
ValidPlans(req) ==
    {p \in [planner_version : {"stub-v1"},
            options : ListsUpTo([option : Allowed(req), probes : ValidProbeLists(req)],
                                Len(req.options)),
            budget : {req.budget},
            stop_rules : {req.stop_rules}] :
        PlanConforms(p, req)}

\* help parser output for the two options (help.rs HelpOption.binding form)
HintMaps ==
    {[o \in {OptA, OptAll} |-> IF o = OptAll THEN "Attached" ELSE None],
     [o \in {OptA, OptAll} |-> IF o = OptA THEN "Trailing" ELSE None],
     [o \in {OptA, OptAll} |-> IF o = OptA THEN "Attached" ELSE "Trailing"]}

InitExec(stops) ==
    /\ x_plan \in UNION {ValidPlans(req) : req \in ExecRequests(stops)}
    /\ x_hints \in HintMaps
    /\ x_pc = "probe"
    /\ opt_idx = 1
    /\ probe_idx = 0
    /\ existence = <<>>
    /\ invalid_value = <<>>
    /\ option_at_end = <<>>
    /\ surfaces = <<>>
    /\ spawned = <<>>

Planned_Reversed == x_plan.options[Len(x_plan.options) + 1 - opt_idx]

\* main.rs:194-195
Planned == x_plan.options[opt_idx]
\* main.rs:196-197
FormHint == x_hints[Planned.option]

\* main.rs:203: the probe the inner loop takes next, None when it has ended
NextProbe ==
    IF x_pc = "probe" /\ probe_idx < Len(Planned.probes)
    THEN Planned.probes[probe_idx + 1]
    ELSE None

\* one iteration of `for probe in &planned.probes` (main.rs:203-241): spawn the
\* child of probe `kind`, keep its run in the matching local, then apply the
\* stop rules
RunProbe(kind) ==
    /\ \E child \in ExecAttempts(Planned.option) :
       \E attempt \in {[child EXCEPT !.args = ProbeArgs(kind, Planned.option, FormHint)]} :
       \E run \in {ProbeRunOf(Planned.option, attempt, kind, Len(spawned) + 1)} :
       \E exist \in {IF kind = "Existence"
                     THEN <<ExistenceOf(Planned.option, attempt, Len(spawned) + 1)>>
                     ELSE existence} :
        LET invalid == IF kind = "InvalidValue" THEN <<run>> ELSE invalid_value
            end == IF kind = "OptionAtEnd" THEN <<run>> ELSE option_at_end
            stop == \/ StopOnUnrecognized(x_plan, exist)
                    \/ StopOnBindingConfirmed(x_plan, exist, invalid, end, FormHint)
        IN
        /\ existence' = exist
        /\ invalid_value' = invalid
        /\ option_at_end' = end
        /\ spawned' = Append(spawned,
                [opt |-> opt_idx, idx |-> probe_idx + 1, probe |-> kind,
                 status |-> IF kind = "Existence" THEN exist[1].status ELSE None])
        /\ probe_idx' = probe_idx + 1
        /\ x_pc' = IF stop \/ probe_idx + 1 = Len(Planned.probes)
                   THEN "assemble" ELSE "probe"
    /\ UNCHANGED <<x_plan, x_hints, opt_idx, surfaces>>
    /\ UNCHANGED <<plannerVars, classifyVars, inferVars, childVars, surfaceVars, runPlannerVars,
                 analyzeVars, libVars>>

\* the arms of `match probe` (main.rs:204-214)
RunExistence ==
    /\ NextProbe = "Existence"
    /\ RunProbe("Existence")

RunInvalidValue ==
    /\ NextProbe = "InvalidValue"
    /\ RunProbe("InvalidValue")

RunOptionAtEnd ==
    /\ NextProbe = "OptionAtEnd"
    /\ RunProbe("OptionAtEnd")

\* after the inner loop: build the OptionSurface, push it and go to the next
\* planned option (main.rs:243-310); after the last one return the vector
AssembleSurface ==
    /\ x_pc = "assemble"
    /\ surfaces' = Append(surfaces,
            OptionSurface(Planned.option, existence, invalid_value, option_at_end, FormHint))
    /\ existence' = <<>>
    /\ invalid_value' = <<>>
    /\ option_at_end' = <<>>
    /\ probe_idx' = 0
    /\ IF opt_idx = Len(x_plan.options)
       THEN x_pc' = "done" /\ UNCHANGED opt_idx
       ELSE /\ opt_idx' = opt_idx + 1
            /\ x_pc' = IF x_plan.options[opt_idx + 1].probes = <<>>
                       THEN "assemble" ELSE "probe"
    /\ UNCHANGED <<x_plan, x_hints, spawned>>
    /\ UNCHANGED <<plannerVars, classifyVars, inferVars, childVars, surfaceVars, runPlannerVars,
                 analyzeVars, libVars>>

NextExec ==
    \/ RunExistence
    \/ RunInvalidValue
    \/ RunOptionAtEnd
    \/ AssembleSurface

(***************************************************************************)
(* C5  An option whose existence status is not Confirmed has binding       *)
(* status Undetermined, no binding kind and the reason "option existence   *)
(* not confirmed", whatever its other probes reported.                     *)
(***************************************************************************)
C5_BindingNeedsExistence ==
    \A k \in DOMAIN surfaces :
        surfaces[k].existence.status # "Confirmed" =>
            /\ surfaces[k].binding.status = "Undetermined"
            /\ surfaces[k].binding.kind = None
            /\ surfaces[k].binding.reason = "option existence not confirmed"

\* existence Undetermined while the invalid-value probe of the option ran and
\* exited with a diagnostic
C5_Witness ==
    \E k \in DOMAIN surfaces :
        /\ surfaces[k].existence.status = "Undetermined"
        /\ \E i \in DOMAIN surfaces[k].binding.evidence :
            /\ surfaces[k].binding.evidence[i].probe = "InvalidValue"
            /\ surfaces[k].binding.evidence[i].exit_code = <<2>>

(***************************************************************************)
(* C6  With stop_on_unrecognized, no probe of an option is spawned after   *)
(* an existence probe of that option was classified Refuted, and the run   *)
(* goes on to probe every later planned option.                            *)
(***************************************************************************)
C6_StopOnRefuted ==
    x_plan.stop_rules.stop_on_unrecognized =>
        /\ \A i \in DOMAIN spawned : \A j \in DOMAIN spawned :
              (i < j /\ spawned[i].opt = spawned[j].opt) => spawned[i].status # "Refuted"
        /\ x_pc = "done" =>
              \A k \in DOMAIN x_plan.options : \E i \in DOMAIN spawned : spawned[i].opt = k

\* the first of two options planned two probes, was Refuted by the first, and
\* the second option was probed next
C6_Witness ==
    /\ x_pc = "done"
    /\ Len(x_plan.options) = 2
    /\ Len(x_plan.options[1].probes) = 2
    /\ Len(spawned) = 2
    /\ spawned[1].status = "Refuted"
    /\ spawned[2].opt = 2

(***************************************************************************)
(* C7  With stop_on_binding_confirmed, once the probes run so far for an   *)
(* option give existence Confirmed and a Confirmed binding with a kind, no *)
(* further probe of the option is run; and the probe loop of an option     *)
(* ends early only then.                                                   *)
(***************************************************************************)
\* the verdict the probes run so far would report is Confirmed with a kind
C7_BindingSettled ==
    LET v == BindingVerdict(existence, invalid_value, option_at_end, FormHint) IN
    v.status = "Confirmed" /\ v.kind # None

C7_EndedEarly == x_pc = "assemble" /\ probe_idx < Len(Planned.probes)

C7_NoProbeAfterSettled ==
    (x_pc = "probe" /\ probe_idx >= 1) => ~C7_BindingSettled

\* the claim as stated: while binding is not settled the next planned probe runs
C7_NextProbeRunsUntilSettled ==
    x_plan.stop_rules.stop_on_binding_confirmed =>
        /\ C7_NoProbeAfterSettled
        /\ C7_EndedEarly => C7_BindingSettled

\* amended: ... unless stop_on_unrecognized ended the option on a Refuted
\* existence probe
C7_StopOnBindingConfirmed ==
    x_plan.stop_rules.stop_on_binding_confirmed =>
        /\ C7_NoProbeAfterSettled
        /\ C7_EndedEarly =>
              \/ C7_BindingSettled
              \/ /\ x_plan.stop_rules.stop_on_unrecognized
                 /\ existence # <<>>
                 /\ existence[1].status = "Refuted"

\* the option-at-end probe of a three-probe option is skipped because the
\* first two probes settled the binding
C7_Witness ==
    /\ x_plan.stop_rules.stop_on_binding_confirmed
    /\ C7_EndedEarly
    /\ C7_BindingSettled
    /\ probe_idx = 2
    /\ Planned.probes = <<"Existence", "InvalidValue", "OptionAtEnd">>

(***************************************************************************)
(* C8  Probes are spawned in plan order, option by option and within an    *)
(* option in the planned order, and the returned vector has one entry per  *)
(* planned option, in plan order, also for options cut short by a stop     *)
(* rule.                                                                   *)
(***************************************************************************)
C8_PlanOrder ==
    /\ \A i \in DOMAIN spawned :
        /\ spawned[i].opt \in DOMAIN x_plan.options
        /\ spawned[i].idx \in DOMAIN x_plan.options[spawned[i].opt].probes
        /\ spawned[i].probe = x_plan.options[spawned[i].opt].probes[spawned[i].idx]
        /\ i = 1 => spawned[i].opt = 1 /\ spawned[i].idx = 1
        /\ i > 1 =>
              \/ spawned[i].opt = spawned[i - 1].opt /\ spawned[i].idx = spawned[i - 1].idx + 1
              \/ spawned[i].opt = spawned[i - 1].opt + 1 /\ spawned[i].idx = 1
        \* the surface of every earlier option is already in the vector
        /\ spawned[i].opt <= Len(surfaces) + 1
    /\ Len(surfaces) <= Len(x_plan.options)
    /\ \A k \in DOMAIN surfaces : surfaces[k].option = x_plan.options[k].option
    /\ x_pc = "done" => Len(surfaces) = Len(x_plan.options)

\* a finished run over two options, planned in the reverse of the request's
\* order, whose first option was cut short
C8_Witness ==
    /\ x_pc = "done"
    /\ Len(surfaces) = 2
    /\ surfaces[1].option = OptAll
    /\ Cardinality({i \in DOMAIN spawned : spawned[i].opt = 1})
         < Len(x_plan.options[1].probes)

(***************************************************************************)
(* C9  The entries of an option's binding evidence list are in the order   *)
(* in which their probes were executed.                                    *)
(***************************************************************************)
C9_EvidenceInExecutionOrder ==
    \A k \in DOMAIN surfaces :
        \A i \in DOMAIN surfaces[k].binding.evidence :
        \A j \in DOMAIN surfaces[k].binding.evidence :
            i < j => surfaces[k].binding.evidence[i].seq < surfaces[k].binding.evidence[j].seq

(***************************************************************************)
(* C10  Every option of the output has exactly one existence evidence      *)
(* record and at most one binding evidence record per probe kind, for      *)
(* every plan and every combination of stop rules.                         *)
(***************************************************************************)
C10_EvidenceCounts ==
    \A k \in DOMAIN surfaces :
        /\ Len(surfaces[k].existence.evidence) = 1
        /\ \A i \in DOMAIN surfaces[k].binding.evidence :
           \A j \in DOMAIN surfaces[k].binding.evidence :
              surfaces[k].binding.evidence[i].probe = surfaces[k].binding.evidence[j].probe
                  => i = j

\* an option whose plan repeats a probe kind, all three probes run
C10_Witness ==
    /\ x_pc = "done"
    /\ \E k \in DOMAIN surfaces :
        /\ x_plan.options[k].probes = <<"Existence", "InvalidValue", "InvalidValue">>
        /\ Cardinality({i \in DOMAIN spawned : spawned[i].opt = k}) = 3
        /\ Len(surfaces[k].binding.evidence) = 2

(***************************************************************************)
(* C11  A probe whose child cannot be spawned or ends without an exit code *)
(* never aborts the run: a failed existence probe gives that option an     *)
(* Undetermined existence and binding verdict with a reason, every planned *)
(* option is still probed and reported, and the verdicts of an option are  *)
(* built from the probes of that option only.                              *)
(***************************************************************************)
C11_FailedProbe(e) == e.exit_code = <<>>

ENV_LC_ALL == "C"
ENV_TZ == "UTC"
ENV_TERM == "dumb"
ENV_PATH == "/bin:/usr/bin"

\* validate.rs:136-142
validation_env == [locale |-> "C", tz |-> "UTC", term |-> "dumb"]

\* an environment is a set of <<name, value>> pairs, one per name
AmbientEnvs ==
    SUBSET {<<"PATH", "/home/u/bin">>, <<"LC_ALL", "de_DE.UTF-8">>, <<"HOME", "/home/u">>}

\* main.rs:449-463 and execute_plan: the invocations of the target binary
ChildCalls == {"--help", "-h", "--version", "usage_error", "probe"}

\* std::process::Command::new: inherits the parent's environment
NewCommand == [cleared |-> FALSE, vars |-> {}]

\* Command::env_clear
env_clear(cmd) == [cleared |-> TRUE, vars |-> {}]

\* Command::env
env(cmd, key, val) ==
    [cmd EXCEPT !.vars = {p \in @ : p[1] # key} \cup {<<key, val>>}]

\* the environment a spawned child sees
ChildEnv(cmd, ambient) ==
    IF cmd.cleared THEN cmd.vars
    ELSE {p \in ambient : \A q \in cmd.vars : q[1] # p[1]} \cup cmd.vars

\* main.rs:481-486, validate.rs:457-462
BuildCommand(e) ==
    env(env(env(env_clear(NewCommand), "LC_ALL", e.locale), "TZ", e.tz), "TERM", e.term)

\* bound of the wall clock
WallClockTicks == 2    \* ticks a probe child is allowed to run

NoResult == [exit_code |-> <<>>, spawn_error |-> None, returned |-> FALSE]

InitChild ==
    /\ ch_call \in ChildCalls
    /\ ch_ambient \in AmbientEnvs
    /\ ch_command = NewCommand
    /\ ch_pc = "build"
    /\ ch_child = "none"
    /\ ch_env = {}
    /\ ch_elapsed = 0
    /\ ch_result = NoResult

\* Command::new(binary).args(..).env_clear().env(..).env(..).env(..)
ChBuild ==
    /\ ch_pc = "build"
    /\ ch_command' = BuildCommand(validation_env)
    /\ ch_pc' = "spawn"
    /\ UNCHANGED <<ch_call, ch_ambient, ch_child, ch_env, ch_elapsed, ch_result>>
    /\ UNCHANGED <<plannerVars, classifyVars, inferVars, execVars, surfaceVars, runPlannerVars,
                 analyzeVars, libVars>>

\* .output(): the child is started
ChSpawn ==
    /\ ch_pc = "spawn"
    /\ ch_child' = "running"
    /\ ch_env' = ChildEnv(ch_command, ch_ambient)
    /\ ch_pc' = "waiting"
    /\ UNCHANGED <<ch_call, ch_ambient, ch_command, ch_elapsed, ch_result>>
    /\ UNCHANGED <<plannerVars, classifyVars, inferVars, execVars, surfaceVars, runPlannerVars,
                 analyzeVars, libVars>>

\* .output() fails to start the child: Err(err) (validate.rs:473-479; main.rs:487
\* propagates it with `?`)
ChSpawnFails ==
    /\ ch_pc = "spawn"
    /\ ch_result' = [exit_code |-> <<>>, spawn_error |-> "boom", returned |-> TRUE]
    /\ ch_pc' = "returned"
    /\ UNCHANGED <<ch_call, ch_ambient, ch_command, ch_child, ch_env, ch_elapsed>>
    /\ UNCHANGED <<plannerVars, classifyVars, inferVars, execVars, surfaceVars, runPlannerVars,
                 analyzeVars, libVars>>

\* time passes while .output() blocks on a child that has not exited
ChTick ==
    /\ ch_pc = "waiting"
    /\ ch_child = "running"
    /\ ch_elapsed < WallClockTicks + 2
    /\ ch_elapsed' = ch_elapsed + 1
    /\ UNCHANGED <<ch_call, ch_ambient, ch_command, ch_pc, ch_child, ch_env, ch_result>>
    /\ UNCHANGED <<plannerVars, classifyVars, inferVars, execVars, surfaceVars, runPlannerVars,
                 analyzeVars, libVars>>

\* the child exits on its own, or is killed by a signal from outside
ChChildExits ==
    /\ ch_child = "running"
    /\ \E code \in ExitCodes :
        ch_result' = [exit_code |-> code, spawn_error |-> None, returned |-> FALSE]
    /\ ch_child' = "exited"
    /\ UNCHANGED <<ch_call, ch_ambient, ch_command, ch_pc, ch_env, ch_elapsed>>
    /\ UNCHANGED <<plannerVars, classifyVars, inferVars, execVars, surfaceVars, runPlannerVars,
                 analyzeVars, libVars>>

\* .output() returns Ok(output) once the child has exited (validate.rs:465-472,
\* main.rs:489-494)
ChOutputReturns ==
    /\ ch_pc = "waiting"
    /\ ch_child = "exited"
    /\ ch_result' = [ch_result EXCEPT !.returned = TRUE]
    /\ ch_pc' = "returned"
    /\ UNCHANGED <<ch_call, ch_ambient, ch_command, ch_child, ch_env, ch_elapsed>>
    /\ UNCHANGED <<plannerVars, classifyVars, inferVars, execVars, surfaceVars, runPlannerVars,
                 analyzeVars, libVars>>

NextChild ==
    \/ ChBuild
    \/ ChSpawn
    \/ ChSpawnFails
    \/ ChTick
    \/ ChChildExits
    \/ ChOutputReturns

(***************************************************************************)
(* C12  A probe is bounded by the wall clock: a probe child that does not  *)
(* exit on its own is cancelled once its wall-clock limit has passed, so   *)
(* the probe never keeps waiting beyond the limit.                         *)
(***************************************************************************)
C12_ProbeBoundedByWallClock ==
    (ch_call = "probe" /\ ch_pc = "waiting" /\ ch_child = "running") =>
        ch_elapsed <= WallClockTicks + 1

(***************************************************************************)
(* C17  Every child of the target binary is started with an environment    *)
(* that holds exactly LC_ALL, TZ, TERM and PATH at the contract constants. *)
(***************************************************************************)
C17_ContractEnv ==
    {<<"LC_ALL", ENV_LC_ALL>>, <<"TZ", ENV_TZ>>, <<"TERM", ENV_TERM>>, <<"PATH", ENV_PATH>>}

C17_ChildEnvIsContract ==
    ch_child # "none" => ch_env = C17_ContractEnv

(***************************************************************************)
(* The run of the extractor: cmd_surface                                   *)
(*                                                                         *)
(* A file of the cache directory is "absent", "partial" (created or        *)
(* truncated by run n, its text not yet written in full) or "complete"     *)
(* (it holds the text run n wrote).  std::fs::write creates or truncates   *)
(* the file and then writes the text; the process can be killed between    *)
(* any two steps, and runs follow one another on the same cache directory. *)
(***************************************************************************)
\* bounds of the runs
MaxRuns == 2           \* runs of the program, one after the other
MaxOptions == 2        \* options the help parser detects

Files == {"plan.json", "planner_request.json", "surface.json", "surface.md"}

\* what a run works with after run_planner returned: the budget of its command
\* line and the plan of the planner.  Two runs on the same binary with the
\* same planner version may differ in either (main.rs:93-119).
PlansAndBudgets == {"plan and budget A", "plan and budget B"}

NoPlans == [r \in 1..MaxRuns |-> ""]

Absent == [state |-> "absent", by |-> 0]

EmptyDir == [f \in Files |-> Absent]

\* Path::exists
Exists(disk, f) == disk[f].state # "absent"

\* std::fs::write, first step: File::create
FileCreate(disk, f, run) == [disk EXCEPT ![f] = [state |-> "partial", by |-> run]]

\* std::fs::write, second step: write_all
FileWriteAll(disk, f, run) == [disk EXCEPT ![f] = [state |-> "complete", by |-> run]]

\* str::trim on the texts the model draws
trim(text) == IF text = " " THEN "" ELSE text

\* what the --help capture can hold
HelpCaptures ==
    { [stdout |-> "", stderr |-> ""],
      [stdout |-> " ", stderr |-> ""],
      [stdout |-> "usage: tool [option]", stderr |-> ""],
      [stdout |-> "", stderr |-> "usage: tool [option]"] }

NoCapture == [stdout |-> "", stderr |-> ""]

\* main.rs:470-478
select_help_text(capture) ==
    IF trim(capture.stdout) # "" THEN <<capture.stdout>>
    ELSE IF trim(capture.stderr) # "" THEN <<capture.stderr>>
    ELSE <<>>

NoOptions_Unchecked(n) == FALSE

\* main.rs:84
NoOptions(n) == n = 0

CacheHit_Disabled(disk) == FALSE

\* main.rs:137
CacheHit(disk) == Exists(disk, "surface.json") /\ Exists(disk, "surface.md")

\* a run starts (main.rs:62-73)
StartRun(run, disk) ==
    /\ s_run' = run
    /\ s_pc' = "identity"
    /\ s_result' = "running"
    /\ s_disk' = disk
    /\ s_disk0' = disk
    /\ s_log' = <<>>
    /\ s_help' = NoCapture
    /\ s_nopts' = 0
    /\ s_left' = 0
    /\ s_hit' = FALSE
    /\ UNCHANGED s_plan

InitSurface ==
    /\ s_run = 1
    /\ s_pc = "identity"
    /\ s_result = "running"
    /\ s_disk = EmptyDir
    /\ s_disk0 = EmptyDir
    /\ s_log = <<>>
    /\ s_help = NoCapture
    /\ s_nopts = 0
    /\ s_left = 0
    /\ s_hit = FALSE
    /\ s_plan = NoPlans

OtherVars ==
    <<plannerVars, classifyVars, inferVars, execVars, childVars, runPlannerVars, analyzeVars,
      libVars>>

\* return Err(..): the process ends with a non-zero status
SFail(msg) ==
    /\ s_pc' = "done"
    /\ s_result' = msg

\* main.rs:73
SIdentity ==
    /\ s_pc = "identity"
    /\ \/ s_pc' = "help" /\ UNCHANGED s_result
       \/ SFail("cannot read binary")
    /\ UNCHANGED <<s_run, s_disk, s_disk0, s_log, s_help, s_nopts, s_left, s_hit, s_plan>>
    /\ UNCHANGED OtherVars

\* main.rs:75, 447-468: the --help (and -h), --version and usage-error captures
SCaptureSelfReport ==
    /\ s_pc = "help"
    /\ s_log' = Append(s_log, "help")
    /\ \/ \E capture \in HelpCaptures :
            s_help' = capture /\ s_pc' = "select" /\ UNCHANGED s_result
       \/ SFail("capture failed") /\ UNCHANGED s_help
    /\ UNCHANGED <<s_run, s_disk, s_disk0, s_nopts, s_left, s_hit, s_plan>>
    /\ UNCHANGED OtherVars

\* main.rs:76-81
SSelectHelp ==
    /\ s_pc = "select"
    /\ IF select_help_text(s_help) = <<>>
       THEN SFail("--help capture produced no output")
       ELSE s_pc' = "parse" /\ UNCHANGED s_result
    /\ UNCHANGED <<s_run, s_disk, s_disk0, s_log, s_help, s_nopts, s_left, s_hit, s_plan>>
    /\ UNCHANGED OtherVars

\* main.rs:83-86
SParse ==
    /\ s_pc = "parse"
    /\ s_log' = Append(s_log, "parse")
    /\ \E n \in 0..MaxOptions :
        /\ s_nopts' = n
        /\ IF NoOptions(n)
           THEN SFail("no options detected in help output")
           ELSE s_pc' = "plan" /\ UNCHANGED s_result
    /\ UNCHANGED <<s_run, s_disk, s_disk0, s_help, s_left, s_hit, s_plan>>
    /\ UNCHANGED OtherVars

\* main.rs:88-119: the request is built and run_planner called
SPlan ==
    /\ s_pc = "plan"
    /\ s_log' = Append(s_log, "plan")
    /\ \/ /\ s_pc' = "mkdir"
          /\ \E p \in PlansAndBudgets : s_plan' = [s_plan EXCEPT ![s_run] = p]
          /\ UNCHANGED s_result
       \/ SFail("planner command failed") /\ UNCHANGED s_plan
       \/ SFail("planner did not cover all options") /\ UNCHANGED s_plan
    /\ UNCHANGED <<s_run, s_disk, s_disk0, s_help, s_nopts, s_left, s_hit>>
    /\ UNCHANGED OtherVars

\* main.rs:121-127
SCreateDir ==
    /\ s_pc = "mkdir"
    /\ \/ s_pc' = "plan.json" /\ UNCHANGED s_result
       \/ SFail("cannot create cache directory")
    /\ UNCHANGED <<s_run, s_disk, s_disk0, s_log, s_help, s_nopts, s_left, s_hit, s_plan>>
    /\ UNCHANGED OtherVars

\* where cmd_surface goes on after it wrote file f (main.rs:134-135, 172-176)
AfterWrite(f) ==
    CASE f = "plan.json" -> "planner_request.json"
      [] f = "planner_request.json" -> "cache"
      [] f = "surface.json" -> "surface.md"
      [] f = "surface.md" -> "done"

\* write_json / std::fs::write of a file, first step: the file is created or
\* truncated (main.rs:134, 135, 172, 174)
SCreateFile ==
    /\ \E f \in Files :
        /\ s_pc = f
        /\ s_disk' = FileCreate(s_disk, f, s_run)
        /\ s_pc' = f \o ":data"
        /\ s_log' = IF f = "surface.json" THEN Append(s_log, "emit") ELSE s_log
    /\ UNCHANGED <<s_run, s_result, s_disk0, s_help, s_nopts, s_left, s_hit, s_plan>>
    /\ UNCHANGED OtherVars

\* second step: the text is written; after surface.md the run returns Ok
SWriteFile ==
    /\ \E f \in Files :
        /\ s_pc = f \o ":data"
        /\ s_disk' = FileWriteAll(s_disk, f, s_run)
        /\ s_pc' = AfterWrite(f)
        /\ s_result' = IF f = "surface.md" THEN "ok" ELSE s_result
    /\ UNCHANGED <<s_run, s_disk0, s_log, s_help, s_nopts, s_left, s_hit, s_plan>>
    /\ UNCHANGED OtherVars

\* main.rs:137-145
SCheckCache ==
    /\ s_pc = "cache"
    /\ IF CacheHit(s_disk)
       THEN /\ s_hit' = TRUE
            /\ s_pc' = "done"
            /\ s_result' = "ok"
            /\ UNCHANGED s_left
       ELSE /\ s_pc' = "probe"
            /\ s_left' = s_nopts
            /\ UNCHANGED <<s_hit, s_result>>
    /\ UNCHANGED <<s_run, s_disk, s_disk0, s_log, s_help, s_nopts, s_plan>>
    /\ UNCHANGED OtherVars

\* main.rs:145, 194-214: execute_plan processes one planned option: its probes
\* run and its verdicts are inferred
SProbeOption ==
    /\ s_pc = "probe"
    /\ s_left > 0
    /\ s_log' = s_log \o <<"probe", "infer">>
    /\ s_left' = s_left - 1
    /\ s_pc' = IF s_left = 1 THEN "surface.json" ELSE "probe"
    /\ UNCHANGED <<s_run, s_result, s_disk, s_disk0, s_help, s_nopts, s_hit, s_plan>>
    /\ UNCHANGED OtherVars

\* the process is killed (signal, power loss) wherever it is
SKilled ==
    /\ s_pc # "done"
    /\ s_pc' = "done"
    /\ s_result' = "killed"
    /\ UNCHANGED <<s_run, s_disk, s_disk0, s_log, s_help, s_nopts, s_left, s_hit, s_plan>>
    /\ UNCHANGED OtherVars

\* the program is run again on the same binary and cache directory
SNewRun ==
    /\ s_pc = "done"
    /\ s_run < MaxRuns
    /\ StartRun(s_run + 1, s_disk)
    /\ UNCHANGED OtherVars

NextSurface ==
    \/ SIdentity
    \/ SCaptureSelfReport
    \/ SSelectHelp
    \/ SParse
    \/ SPlan
    \/ SCreateDir
    \/ SCreateFile
    \/ SWriteFile
    \/ SCheckCache
    \/ SProbeOption
    \/ SKilled
    \/ SNewRun

(***************************************************************************)
(* C13: the stages of a run happen in the order help capture, parse, plan, *)
(* probe, infer, emit.  The planner is invoked only after a non-empty help *)
(* text yielded at least one option; no probe runs before the planner      *)
(* returned a validated plan; surface.json is written only after every     *)
(* planned option has been processed; and a run that ends on a fatal       *)
(* condition (empty help text, zero options, planner failure, plan         *)
(* validation failure) has a non-zero result, ran no probe and did not     *)
(* write surface.json.                                                     *)
(***************************************************************************)
C13_Rank(stage) ==
    CASE stage = "help" -> 1
      [] stage = "parse" -> 2
      [] stage = "plan" -> 3
      [] stage = "probe" -> 4
      [] stage = "infer" -> 4
      [] stage = "emit" -> 5

C13_Count(stage) == Cardinality({i \in 1..Len(s_log) : s_log[i] = stage})

C13_Fatal ==
    { "--help capture produced no output", "no options detected in help output",
      "planner command failed", "planner did not cover all options" }

C13_PipelineOrder ==
    /\ \A i, j \in 1..Len(s_log) : i < j => C13_Rank(s_log[i]) <= C13_Rank(s_log[j])
    /\ \A i \in 1..Len(s_log) :
            s_log[i] = "infer" => i > 1 /\ s_log[i - 1] = "probe"
    /\ C13_Count("plan") > 0 =>
            /\ C13_Count("help") = 1 /\ C13_Count("parse") = 1
            /\ s_help.stdout \notin {"", " "} \/ s_help.stderr \notin {"", " "}
            /\ s_nopts >= 1
    /\ C13_Count("probe") > 0 => C13_Count("plan") = 1
    /\ C13_Count("emit") > 0 =>
            C13_Count("probe") = s_nopts /\ C13_Count("infer") = s_nopts
    /\ s_disk["surface.json"] # s_disk0["surface.json"] => C13_Count("emit") = 1
    /\ s_result \in C13_Fatal =>
            /\ s_pc = "done"
            /\ s_result # "ok"
            /\ C13_Count("probe") = 0
            /\ s_disk["surface.json"] = s_disk0["surface.json"]
    /\ (s_pc = "done" /\ s_result \notin {"ok", "killed"}) =>
            C13_Count("probe") = 0

\* a run that went through every stage with two options
C13_Witness ==
    /\ s_pc = "done" /\ s_result = "ok" /\ ~s_hit
    /\ s_log = <<"help", "parse", "plan", "probe", "infer", "probe", "infer", "emit">>
    /\ s_disk["surface.json"] = [state |-> "complete", by |-> s_run]

(***************************************************************************)
(* C15: a run that finds surface.json and surface.md both present in its   *)
(* cache directory runs no probe, leaves both files exactly as they were   *)
(* and, when it ends by itself, ends successfully by the cache-hit return. *)
(***************************************************************************)
C15_BothPresent ==
    s_disk0["surface.json"].state # "absent" /\ s_disk0["surface.md"].state # "absent"

C15_CacheHitShortCircuits ==
    /\ C15_BothPresent =>
            /\ C13_Count("probe") = 0
            /\ s_disk["surface.json"] = s_disk0["surface.json"]
            /\ s_disk["surface.md"] = s_disk0["surface.md"]
            /\ s_pc \notin {"probe", "surface.json", "surface.json:data", "surface.md",
                            "surface.md:data"}
            /\ (s_pc = "done" /\ s_result = "ok") => s_hit
    /\ s_hit => s_pc = "done" /\ s_result = "ok"

\* the second run takes the cache hit on the report the first run wrote
C15_Witness ==
    /\ s_run = 2 /\ s_hit /\ s_pc = "done"
    /\ s_disk["surface.json"] = [state |-> "complete", by |-> 1]
    /\ s_disk["surface.md"] = [state |-> "complete", by |-> 1]

(***************************************************************************)
(* C16: at every point of every run, surface.json and surface.md are each  *)
(* absent or complete, and a cache hit is only taken on complete files.    *)
(***************************************************************************)
C16_ReportsAtomic ==
    /\ s_disk["surface.json"].state # "partial"
    /\ s_disk["surface.md"].state # "partial"
    /\ s_hit => /\ s_disk0["surface.json"].state # "partial"
                /\ s_disk0["surface.md"].state # "partial"

\* the cache hit on a truncated surface.md left by a killed run
C16_HitOnPartial ==
    ~(s_hit /\ s_disk0["surface.md"].state = "partial")

(***************************************************************************)
(* run_planner: from the environment to a validated plan                   *)
(*                                                                         *)
(* A text (a plan file, or the planner command's stdout) is a record: what *)
(* kind of text it is and, when it is a JSON document of a ProbePlan, the  *)
(* plan it spells.  "blank" is white space only, "padded" a document with  *)
(* white space around it.                                                  *)
(***************************************************************************)
\* the request of the call
RunPlannerRequest ==
    [options |-> <<OptA, OptAll>>,
     budget |-> [max_total |-> MaxTotalArg, max_per_option |-> MaxPerOptionArg],
     stop_rules |-> RequestStopRules]

\* plans a planner may spell for that request
PlanDocuments ==
    [planner_version : {"", " ", "stub-v1"},
     options : { <<[option |-> OptA, probes |-> <<"Existence">>],
                   [option |-> OptAll, probes |-> <<"Existence", "InvalidValue">>]>>,
                 <<[option |-> OptA, probes |-> <<"Existence">>]>>,
                 <<[option |-> OptA, probes |-> <<"InvalidValue">>],
                   [option |-> OptAll, probes |-> <<"Existence">>]>> },
     budget : PlanBudgets(RunPlannerRequest),
     stop_rules : {RequestStopRules}]

NoDocument ==
    [planner_version |-> "", options |-> <<>>, budget |-> RunPlannerRequest.budget,
     stop_rules |-> RequestStopRules]

Texts ==
    [kind : {"empty", "blank", "garbage"}, plan : {NoDocument}]
        \cup [kind : {"document", "padded"}, plan : PlanDocuments]

\* str::trim on a text
trim_text(text) ==
    CASE text.kind = "blank" -> [text EXCEPT !.kind = "empty"]
      [] text.kind = "padded" -> [text EXCEPT !.kind = "document"]
      [] OTHER -> text

\* String::is_empty
is_empty(text) == text.kind = "empty"

\* serde_json::from_str::<ProbePlan>: white space around the document is allowed
from_str(text) == IF text.kind \in {"document", "padded"} THEN <<text.plan>> ELSE <<>>

\* the planner_version test of parse_plan (planner.rs:108)
VersionMissing_Unchecked(p) == FALSE

VersionMissing(p) == trim(p.planner_version) = ""

\* planner.rs:106-112; "" when the text parses to a plan with a version
parse_plan(text) ==
    IF from_str(text) = <<>> THEN "cannot parse planner output"
    ELSE IF VersionMissing(from_str(text)[1]) THEN "planner_version is required"
    ELSE ""

\* planner.rs:132-157, the loop from planned option i on
RECURSIVE validate_options(_, _, _, _, _)
validate_options(i, p, req, seenSoFar, total) ==
    IF i > Len(p.options)
    THEN IF TotalExceeded(total, p) THEN "planner exceeded total probe budget"
         ELSE IF CoverageMissing(seenSoFar, req) THEN "planner did not cover all options"
         ELSE ""
    ELSE LET err == PlannedOptionError(p.options[i], p, req, seenSoFar) IN
         IF err # "" THEN err
         ELSE validate_options(i + 1, p, req, seenSoFar \cup {p.options[i].option},
                               total + Len(p.options[i].probes))

\* planner.rs:114-175; "" for Ok(())
validate_plan(p, req) ==
    IF BudgetMismatch(p, req) THEN "planner budget does not match requested budget"
    ELSE IF StopRulesMismatch(p, req)
    THEN "planner stop rules do not match requested stop rules"
    ELSE validate_options(1, p, req, {}, 0)

\* what running the planner command gives: no child (spawn fails), or a child
\* with an exit status (<<>> when a signal ended it), a stderr and a stdout
CommandOutputs ==
    [spawned : {TRUE}, exit : {<<0>>, <<1>>, <<>>}, stderr : {"", "warning"},
     stdout : Texts]

NoText == [kind |-> "empty", plan |-> NoDocument]

NoRun == [spawned |-> FALSE, exit |-> <<>>, stderr |-> "", stdout |-> NoText]

CommandRuns == {NoRun} \cup CommandOutputs

\* ExitStatus::success
success(exit) == exit = <<0>>

\* BVM_PLANNER_PLAN: unset, a path that cannot be read, or a file with a text.
\* BVM_PLANNER_CMD: unset, or a command.
PlannerEnvs ==
    [plan_set : {FALSE}, readable : {FALSE}, file : {NoText}, cmd_set : BOOLEAN,
     run : CommandRuns]
        \cup [plan_set : {TRUE}, readable : {FALSE}, file : {NoText}, cmd_set : BOOLEAN,
              run : {NoRun}]
        \cup [plan_set : {TRUE}, readable : {TRUE}, file : Texts, cmd_set : BOOLEAN,
              run : {NoRun}]

InitRunPlanner ==
    /\ rp_request = RunPlannerRequest
    /\ rp_env \in PlannerEnvs
    /\ rp_pc = "plan_env"
    /\ rp_raw = NoText
    /\ rp_plan = <<>>
    /\ rp_result = "pending"

NotRunPlanner ==
    <<plannerVars, classifyVars, inferVars, execVars, childVars, surfaceVars, analyzeVars,
      libVars>>

\* return Err(..) or `?`
RpFail(msg) ==
    /\ rp_pc' = "done"
    /\ rp_result' = msg

\* planner.rs:60-61: BVM_PLANNER_PLAN and read_to_string
RpPlanFile ==
    /\ rp_pc = "plan_env"
    /\ IF rp_env.plan_set
       THEN IF rp_env.readable
            THEN rp_raw' = rp_env.file /\ rp_pc' = "parse" /\ UNCHANGED rp_result
            ELSE RpFail("cannot read plan file") /\ UNCHANGED rp_raw
       ELSE rp_pc' = "cmd_env" /\ UNCHANGED <<rp_raw, rp_result>>
    /\ UNCHANGED <<rp_request, rp_env, rp_plan>>
    /\ UNCHANGED NotRunPlanner

\* planner.rs:67-81: BVM_PLANNER_CMD, spawn, the request on stdin, wait_with_output
RpCommand ==
    /\ rp_pc = "cmd_env"
    /\ IF ~rp_env.cmd_set
       THEN RpFail("BVM_PLANNER_CMD or BVM_PLANNER_PLAN is required")
       ELSE IF ~rp_env.run.spawned
       THEN RpFail("cannot spawn planner command")
       ELSE rp_pc' = "status" /\ UNCHANGED rp_result
    /\ UNCHANGED <<rp_request, rp_env, rp_raw, rp_plan>>
    /\ UNCHANGED NotRunPlanner

\* planner.rs:82-88
RpStatus ==
    /\ rp_pc = "status"
    /\ IF ~success(rp_env.run.exit)
       THEN RpFail("planner command failed")
       ELSE rp_pc' = "stderr" /\ UNCHANGED rp_result
    /\ UNCHANGED <<rp_request, rp_env, rp_raw, rp_plan>>
    /\ UNCHANGED NotRunPlanner

\* planner.rs:90-95
RpStderr ==
    /\ rp_pc = "stderr"
    /\ IF rp_env.run.stderr # ""
       THEN RpFail("planner command emitted stderr")
       ELSE rp_pc' = "stdout" /\ UNCHANGED rp_result
    /\ UNCHANGED <<rp_request, rp_env, rp_raw, rp_plan>>
    /\ UNCHANGED NotRunPlanner

\* planner.rs:97-100
RpStdout ==
    /\ rp_pc = "stdout"
    /\ rp_raw' = trim_text(rp_env.run.stdout)
    /\ IF is_empty(trim_text(rp_env.run.stdout))
       THEN RpFail("planner returned empty output")
       ELSE rp_pc' = "parse" /\ UNCHANGED rp_result
    /\ UNCHANGED <<rp_request, rp_env, rp_plan>>
    /\ UNCHANGED NotRunPlanner

\* planner.rs:62 and 102
RpParse ==
    /\ rp_pc = "parse"
    /\ IF parse_plan(rp_raw) # ""
       THEN RpFail(parse_plan(rp_raw)) /\ UNCHANGED rp_plan
       ELSE rp_plan' = from_str(rp_raw) /\ rp_pc' = "validate" /\ UNCHANGED rp_result
    /\ UNCHANGED <<rp_request, rp_env, rp_raw>>
    /\ UNCHANGED NotRunPlanner

\* planner.rs:63-64 and 103-104
RpValidate ==
    /\ rp_pc = "validate"
    /\ IF validate_plan(rp_plan[1], rp_request) # ""
       THEN RpFail(validate_plan(rp_plan[1], rp_request))
       ELSE rp_pc' = "done" /\ rp_result' = "Ok"
    /\ UNCHANGED <<rp_request, rp_env, rp_raw, rp_plan>>
    /\ UNCHANGED NotRunPlanner

NextRunPlanner ==
    \/ RpPlanFile
    \/ RpCommand
    \/ RpStatus
    \/ RpStderr
    \/ RpStdout
    \/ RpParse
    \/ RpValidate

(***************************************************************************)
(* C14: run_planner returns an error, and no plan, whenever the planner    *)
(* command exits non-zero, writes to stderr, returns empty stdout, returns *)
(* output that is no plan, or returns a plan with an empty                 *)
(* planner_version, and when neither a plan file nor a command is          *)
(* configured; a plan read from a plan file is parsed and validated as one *)
(* produced by the command is: in both cases Ok is returned exactly for a  *)
(* text that spells a plan with a version that conforms to the request.    *)
(***************************************************************************)
C14_GoodText(text) ==
    /\ text.kind \in {"document", "padded"}
    /\ text.plan.planner_version \notin {"", " "}
    /\ PlanConforms(text.plan, rp_request)

C14_Returned == IF rp_result = "Ok" THEN rp_plan ELSE <<>>

C14_RunPlannerErrors ==
    rp_pc = "done" =>
        /\ rp_result # "pending"
        /\ (~rp_env.plan_set /\ ~rp_env.cmd_set) => rp_result # "Ok"
        /\ (~rp_env.plan_set /\ rp_env.cmd_set) =>
                /\ ( \/ rp_env.run.exit # <<0>>
                     \/ rp_env.run.stderr # ""
                     \/ rp_env.run.stdout.kind \in {"empty", "blank", "garbage"}
                     \/ rp_env.run.stdout.plan.planner_version = "" ) => rp_result # "Ok"
                /\ rp_result = "Ok" <=>
                        /\ rp_env.run.spawned
                        /\ rp_env.run.exit = <<0>>
                        /\ rp_env.run.stderr = ""
                        /\ C14_GoodText(rp_env.run.stdout)
                /\ rp_result = "Ok" => rp_plan = <<rp_env.run.stdout.plan>>
        /\ rp_env.plan_set =>
                /\ rp_result = "Ok" <=> (rp_env.readable /\ C14_GoodText(rp_env.file))
                /\ rp_result = "Ok" => rp_plan = <<rp_env.file.plan>>
        /\ rp_result # "Ok" => C14_Returned = <<>>

\* a plan file whose plan fails validation is refused like a command's output
C14_Witness ==
    /\ rp_pc = "done"
    /\ rp_env.plan_set
    /\ rp_env.file.kind = "document"
    /\ rp_env.file.plan.planner_version = "stub-v1"
    /\ rp_result = "planner did not cover all options"

\* the command's plan without a version is refused
C14_WitnessNoVersion ==
    /\ rp_pc = "done"
    /\ ~rp_env.plan_set /\ rp_env.cmd_set
    /\ rp_env.run.exit = <<0>> /\ rp_env.run.stderr = ""
    /\ rp_env.run.stdout.kind = "padded"
    /\ rp_result = "planner_version is required"

(***************************************************************************)
(* analyze_binding_attempt: the signals of one attempt and its notes       *)
(***************************************************************************)
\* validate.rs:73-80
MISSING_ARGUMENT_MARKERS ==
    <<"requires an argument", "requires a value", "option requires an argument",
      "option requires a value", "missing argument", "missing value">>

\* validate.rs:82-97
ARGUMENT_NOT_ALLOWED_MARKERS ==
    <<"doesn't allow an argument", "does not allow an argument", "doesn't allow a value",
      "does not allow a value", "doesn't take an argument", "does not take an argument",
      "doesn't take a value", "does not take a value", "doesn't accept an argument",
      "does not accept an argument", "takes no argument", "takes no value",
      "argument not allowed", "value not allowed">>

\* validate.rs:99
INVALID_ARGUMENT_MARKERS == <<"invalid argument", "invalid value">>

\* the notes one extractor's result adds (validate.rs:529-537, 539-553, 555-563)
marker_notes(reported, option, output, markers, name) ==
    IF reported # <<>> /\ ~AnyMatches(reported, option)
    THEN <<name \o " marker for reported">>
    ELSE IF reported = <<>> /\ contains_any(output, markers)
    THEN <<name \o " marker without option attribution">>
    ELSE <<>>

\* validate.rs:483-579: the notes, in the order they are pushed
analysis_notes(option, attempt) ==
    LET output == OutputOf(attempt)
        unrec == find_marker(output, UNRECOGNIZED_MARKERS)
        reported == extract_reported_options(output)
    IN
    IF attempt.spawn_error # None THEN <<"spawn failed">>
    ELSE (IF attempt.exit_code = <<>> THEN <<"terminated without exit code">> ELSE <<>>)
         \o (IF unrec = None \/ AnyMatches(reported, option) THEN <<>>
             ELSE IF reported = <<>>
             THEN <<"unrecognized option marker without option attribution">>
             ELSE <<"unrecognized option marker for reported">>)
         \o marker_notes(extract_missing_argument_options(output), option, output,
                         MISSING_ARGUMENT_MARKERS, "missing argument")
         \o marker_notes(extract_argument_not_allowed_options(output), option, output,
                         ARGUMENT_NOT_ALLOWED_MARKERS, "argument not allowed")
         \o marker_notes(extract_invalid_argument_options(output), option, output,
                         INVALID_ARGUMENT_MARKERS, "invalid argument")
         \o (IF find_marker(output, AMBIGUOUS_MARKERS) # None
             THEN <<"ambiguous option response">> ELSE <<>>)

\* the reported token of a diagnostic that repeats the attached form
OptAllValue == OptAll \o <<"=">> \o Dummy

\* lines a target prints about an option, or about none
AnalyzeFragments ==
    [phrase : {PhUnrecognized, PhRequiresArg, PhNotAllowed, PhInvalidArg},
     tok : {OptAll, OptAllValue, OptZz}]
    \cup [phrase : {PhGetoptInvalid, PhGetoptRequires}, tok : {<<"a">>, <<"z">>}]
    \cup [phrase : {PhMissingBare, PhUsage}, tok : {<<>>}]

AnalyzeAttempts ==
    {[args |-> <<>>, exit_code |-> <<>>, stdout |-> <<>>, stderr |-> <<>>,
      spawn_error |-> "boom"]}
    \cup {a \in [args : {<<>>}, exit_code : {<<>>, <<2>>},
                 stdout : ListsUpTo({[phrase |-> PhUsage, tok |-> <<>>]}, 1),
                 stderr : ListsUpTo(AnalyzeFragments, MaxOutputLen),
                 spawn_error : {None}] :
            Len(a.stdout) + Len(a.stderr) <= MaxOutputLen}

NoAnalysis ==
    [signals |-> [unrecognized |-> FALSE, missing_arg |-> FALSE, arg_not_allowed |-> FALSE,
                  invalid_arg |-> FALSE, ambiguous |-> FALSE, exit_code |-> <<>>],
     notes |-> <<>>]

InitAnalyze ==
    /\ an_option \in TestedOptions
    /\ an_attempt \in AnalyzeAttempts
    /\ an_pc = "call"
    /\ an_result = NoAnalysis

\* the call analyze_binding_attempt(option, &attempt)
Analyze ==
    /\ an_pc = "call"
    /\ an_pc' = "done"
    /\ an_result' = [signals |-> analyze_binding_attempt(an_option, an_attempt),
                     notes |-> analysis_notes(an_option, an_attempt)]
    /\ UNCHANGED <<an_option, an_attempt>>
    /\ UNCHANGED <<plannerVars, classifyVars, inferVars, execVars, childVars, surfaceVars,
                   runPlannerVars, libVars>>

NextAnalyze ==
    \/ Analyze

(***************************************************************************)
(* C18: each of the four marker signals is true if and only if some token  *)
(* extracted for it matches the option under test by one of three rules:   *)
(* equal after lower-casing both; equal after removing a trailing =VALUE   *)
(* from the reported token; or a single-letter token equal to the letter   *)
(* of a two-character -X option.  Tokens that match by none leave the      *)
(* signal false and add a mismatch note.                                   *)
(***************************************************************************)
\* the token up to its first "="
RECURSIVE C18_WithoutValue(_)
C18_WithoutValue(tok) ==
    IF tok = <<>> \/ Head(tok) = "=" THEN <<>>
    ELSE <<Head(tok)>> \o C18_WithoutValue(Tail(tok))

C18_Matches(tok, option) ==
    \/ to_lowercase(tok) = to_lowercase(option)
    \/ to_lowercase(C18_WithoutValue(tok)) = to_lowercase(option)
    \/ /\ Len(tok) = 1 /\ Len(option) = 2 /\ option[1] = "-"
       /\ to_lowercase(tok) = to_lowercase(<<option[2]>>)

C18_Attributed(reported) ==
    \E i \in DOMAIN reported : C18_Matches(reported[i], an_option)

C18_Signal(signal, reported, note) ==
    /\ signal <=> C18_Attributed(reported)
    /\ (reported # <<>> /\ ~C18_Attributed(reported)) =>
            \E i \in DOMAIN an_result.notes : an_result.notes[i] = note

C18_SignalIffTokenMatches ==
    (an_pc = "done" /\ an_attempt.spawn_error = None) =>
        LET output == OutputOf(an_attempt) IN
        /\ C18_Signal(an_result.signals.unrecognized, extract_reported_options(output),
                      "unrecognized option marker for reported")
        /\ C18_Signal(an_result.signals.missing_arg,
                      extract_missing_argument_options(output),
                      "missing argument marker for reported")
        /\ C18_Signal(an_result.signals.arg_not_allowed,
                      extract_argument_not_allowed_options(output),
                      "argument not allowed marker for reported")
        /\ C18_Signal(an_result.signals.invalid_arg,
                      extract_invalid_argument_options(output),
                      "invalid argument marker for reported")

\* the same without the =VALUE rule, which is what option_matches implements
C18_TwoRules(tok, option) ==
    \/ to_lowercase(tok) = to_lowercase(option)
    \/ /\ Len(tok) = 1 /\ Len(option) = 2 /\ option[1] = "-"
       /\ to_lowercase(tok) = to_lowercase(<<option[2]>>)

C18_SignalIffTwoRules ==
    (an_pc = "done" /\ an_attempt.spawn_error = None) =>
        LET output == OutputOf(an_attempt)
            Holds(signal, reported) ==
                signal <=> \E i \in DOMAIN reported : C18_TwoRules(reported[i], an_option)
        IN
        /\ Holds(an_result.signals.unrecognized, extract_reported_options(output))
        /\ Holds(an_result.signals.missing_arg, extract_missing_argument_options(output))
        /\ Holds(an_result.signals.arg_not_allowed,
                 extract_argument_not_allowed_options(output))
        /\ Holds(an_result.signals.invalid_arg, extract_invalid_argument_options(output))

(***************************************************************************)
(* C19: when the output holds a missing-argument marker and no option      *)
(* token can be extracted from it, missing_arg is true and the notes hold  *)
(* "without option attribution; attributed to tested option"; when tokens  *)
(* are extracted and none matches the tested option, missing_arg is false. *)
(***************************************************************************)
C19_MarkerPresent ==
    \E i \in DOMAIN OutputOf(an_attempt) :
        MarkersIn(OutputOf(an_attempt)[i].phrase)
            \cap {"requires an argument", "requires a value", "option requires an argument",
                  "option requires a value", "missing argument", "missing value"} # {}

C19_HasNote(text) == \E i \in DOMAIN an_result.notes : an_result.notes[i] = text

C19_UnattributedMissingArg ==
    (an_pc = "done" /\ an_attempt.spawn_error = None) =>
        LET missing == extract_missing_argument_options(OutputOf(an_attempt)) IN
        /\ (C19_MarkerPresent /\ missing = <<>>) =>
                /\ an_result.signals.missing_arg
                /\ C19_HasNote("missing argument marker without option attribution; "
                               \o "attributed to tested option")
        /\ (missing # <<>> /\ \A i \in DOMAIN missing : ~option_matches(missing[i], an_option))
                => ~an_result.signals.missing_arg

\* what the code does in the first case: the signal stays false
C19_UnattributedStaysFalse ==
    (an_pc = "done" /\ an_attempt.spawn_error = None) =>
        LET missing == extract_missing_argument_options(OutputOf(an_attempt)) IN
        /\ (C19_MarkerPresent /\ missing = <<>>) =>
                /\ ~an_result.signals.missing_arg
                /\ C19_HasNote("missing argument marker without option attribution")
        /\ (missing # <<>> /\ \A i \in DOMAIN missing : ~option_matches(missing[i], an_option))
                => ~an_result.signals.missing_arg

(***************************************************************************)
(* C20: the argv of a probe.  Existence passes [option, "--help"];         *)
(* InvalidValue passes [option=DUMMY, "--help"] when the form hint is      *)
(* Attached, [option, DUMMY, "--help"] when it is Trailing, and with no    *)
(* hint the attached form if the option starts with "--" and the trailing  *)
(* form otherwise; OptionAtEnd passes [option] alone.  So the argv         *)
(* recorded for every probe holds the option token under test.             *)
(***************************************************************************)
C20_Help == <<"-", "-", "h", "e", "l", "p">>

C20_Value == <<"_", "_", "b", "v", "m", "_", "_">>

C20_Argv(probe, option, hint) ==
    LET attached == <<option \o <<"=">> \o C20_Value, C20_Help>>
        trailing == <<option, C20_Value, C20_Help>>
    IN
    CASE probe = "Existence" -> <<option, C20_Help>>
      [] probe = "OptionAtEnd" -> <<option>>
      [] probe = "InvalidValue" /\ hint = "Attached" -> attached
      [] probe = "InvalidValue" /\ hint = "Trailing" -> trailing
      [] probe = "InvalidValue" /\ hint = None ->
            IF SubSeq(option, 1, 2) = <<"-", "-">> THEN attached ELSE trailing

\* some element of argv is the option, or the option followed by =VALUE
C20_HoldsOption(argv, option) ==
    \E i \in DOMAIN argv :
        \/ argv[i] = option
        \/ /\ Len(argv[i]) > Len(option)
           /\ SubSeq(argv[i], 1, Len(option) + 1) = option \o <<"=">>

C20_Recorded(evidence, option) ==
    /\ evidence.args = C20_Argv(evidence.probe, option, x_hints[option])
    /\ C20_HoldsOption(evidence.args, option)

C20_WitnessTrailing ==
    /\ x_pc = "done"
    /\ \E k \in DOMAIN surfaces :
        /\ surfaces[k].option = OptAll
        /\ x_hints[OptAll] = "Trailing"
        /\ \E j \in DOMAIN surfaces[k].binding.evidence :
            /\ surfaces[k].binding.evidence[j].probe = "InvalidValue"
            /\ surfaces[k].binding.evidence[j].args = <<OptAll, Dummy, HelpArg>>

(***************************************************************************)
(* C28: the probe budget bounds execution.  For every validated plan and   *)
(* every value of the stop rules, execute_plan spawns at most max_total    *)
(* probe children in all and at most max_per_option for any one option.    *)
(***************************************************************************)
C28_SpawnedFor(k) == Cardinality({i \in DOMAIN spawned : spawned[i].opt = k})

C28_BudgetBoundsExecution ==
    /\ Len(spawned) <= x_plan.budget.max_total
    /\ \A k \in DOMAIN x_plan.options : C28_SpawnedFor(k) <= x_plan.budget.max_per_option

\* a run that used up the whole budget on one option
C28_Witness ==
    /\ x_pc = "done"
    /\ Len(spawned) = x_plan.budget.max_total
    /\ C28_SpawnedFor(1) = x_plan.budget.max_per_option

(***************************************************************************)
(* run_command: spawn with configure_child, two reader threads, the poll   *)
(* loop with the wall-clock deadline                                       *)
(*                                                                         *)
(* A pipe holds at most PipeCap bytes; a child writing to a full pipe is   *)
(* blocked until a reader takes a byte.  The bytes of a stream are         *)
(* numbered 1, 2, ... in the order the child writes them.                  *)
(***************************************************************************)
\* bounds of the call
PipeCap == 1           \* bytes a pipe buffers
MaxBytes == 2          \* bytes a child writes to one stream

Streams == {"stdout", "stderr"}

\* limits.rs:12: u64::div_ceil
div_ceil(n, d) == (n + d - 1) \div d

SetupSteps_LimitsFirst ==
    <<"RLIMIT_CPU", "RLIMIT_AS", "RLIMIT_FSIZE", "RLIMIT_NOFILE", "setsid">>

\* limits.rs:9-24: the five steps in source order
SetupSteps == <<"setsid", "RLIMIT_CPU", "RLIMIT_AS", "RLIMIT_FSIZE", "RLIMIT_NOFILE">>

\* limits.rs:12-24, 28-37: rlim_cur and rlim_max of one set_rlimit call
rlimit(step, limits) ==
    LET value == CASE step = "RLIMIT_CPU" -> div_ceil(limits.cpu_time_ms, 1000)
                   [] step = "RLIMIT_AS" -> limits.memory_kb * 1024
                   [] step = "RLIMIT_FSIZE" -> limits.file_size_kb * 1024
                   [] step = "RLIMIT_NOFILE" -> 128
    IN [rlim_cur |-> value, rlim_max |-> value]

ScenarioLimits ==
    [wall_time_ms : {WallClockTicks}, cpu_time_ms : {1, 1000, 1001}, memory_kb : {64},
     file_size_kb : {8}]

DeadlinePassed_AtLimit(elapsed, timeout) == elapsed >= timeout

\* runner.rs:152
DeadlinePassed(elapsed, timeout) == elapsed > timeout

ReaderRuns_OneAfterTheOther(stream, readers) ==
    stream = "stdout" \/ readers["stdout"].state = "eof"

\* runner.rs:144-145: each reader is a thread of its own
ReaderRuns(stream, readers) == TRUE

NoChild ==
    [state |-> "none", applied |-> <<>>, session |-> FALSE,
     limits |-> [r \in {} |-> 0],
     left |-> [st \in Streams |-> 0], wrote |-> [st \in Streams |-> <<>>], hangs |-> FALSE]

NoRunResult ==
    [kind |-> "pending", exit_code |-> <<>>, timed_out |-> FALSE, stdout |-> <<>>,
     stderr |-> <<>>]

NoPoll == [saw |-> "none", kill_sent |-> FALSE, killed_at |-> 0, killed_child |-> "none"]

InitRunCommand ==
    /\ rc_limits \in ScenarioLimits
    /\ rc_pc = "spawn"
    /\ rc_child \in {[NoChild EXCEPT !.left = l, !.hangs = h] :
                        l \in [Streams -> 0..MaxBytes], h \in BOOLEAN}
    /\ rc_pipe = [st \in Streams |-> <<>>]
    /\ rc_reader = [st \in Streams |-> [state |-> "none", buf |-> <<>>]]
    /\ rc_elapsed = 0
    /\ rc_poll = NoPoll
    /\ rc_result = NoRunResult

NotRunCommand ==
    <<plannerVars, classifyVars, inferVars, execVars, childVars, surfaceVars, runPlannerVars,
      analyzeVars, bindingAttemptsVars, stopCompareVars, exchangeVars, helpVars>>

\* runner.rs:133: command.spawn() forks; the parent waits for the exec or the error
RcFork ==
    /\ rc_pc = "spawn"
    /\ rc_pc' = "spawning"
    /\ rc_child' = [rc_child EXCEPT !.state = "setup"]
    /\ UNCHANGED <<rc_limits, rc_pipe, rc_reader, rc_elapsed, rc_poll, rc_result>>
    /\ UNCHANGED NotRunCommand

\* limits.rs:8-26: the next step of configure_child in the forked child; a
\* step that fails returns the error and nothing after it runs
ChildSetupStep ==
    /\ rc_child.state = "setup"
    /\ Len(rc_child.applied) < Len(SetupSteps)
    /\ LET step == SetupSteps[Len(rc_child.applied) + 1] IN
       \/ rc_child' =
            [rc_child EXCEPT
                !.applied = Append(@, step),
                !.session = IF step = "setsid" THEN TRUE ELSE @,
                !.limits = IF step = "setsid" THEN @
                           ELSE [r \in DOMAIN @ \cup {step} |->
                                    IF r = step THEN rlimit(step, rc_limits) ELSE @[r]]]
       \/ rc_child' = [rc_child EXCEPT !.state = "failed"]
    /\ UNCHANGED <<rc_limits, rc_pc, rc_pipe, rc_reader, rc_elapsed, rc_poll, rc_result>>
    /\ UNCHANGED NotRunCommand

\* configure_child returned Ok(()): the target is exec'd
ChildExec ==
    /\ rc_child.state = "setup"
    /\ Len(rc_child.applied) = Len(SetupSteps)
    /\ rc_child' = [rc_child EXCEPT !.state = "running"]
    /\ UNCHANGED <<rc_limits, rc_pc, rc_pipe, rc_reader, rc_elapsed, rc_poll, rc_result>>
    /\ UNCHANGED NotRunCommand

\* runner.rs:133-148: spawn returns; on Ok the two readers and the clock start
RcSpawned ==
    /\ rc_pc = "spawning"
    /\ rc_child.state \notin {"setup"}
    /\ IF rc_child.state = "failed"
       THEN /\ rc_pc' = "done"
            /\ rc_result' = [NoRunResult EXCEPT !.kind = "Err: spawn command"]
            /\ UNCHANGED rc_reader
       ELSE /\ rc_pc' = "try_wait"
            /\ rc_reader' = [st \in Streams |-> [state |-> "reading", buf |-> <<>>]]
            /\ UNCHANGED rc_result
    /\ UNCHANGED <<rc_limits, rc_child, rc_pipe, rc_elapsed, rc_poll>>
    /\ UNCHANGED NotRunCommand

\* the child writes its next byte to a stream whose pipe has room
ChildWrites ==
    /\ rc_child.state = "running"
    /\ \E st \in Streams :
        /\ rc_child.left[st] > 0
        /\ Len(rc_pipe[st]) < PipeCap
        /\ rc_pipe' = [rc_pipe EXCEPT ![st] = Append(@, Len(rc_child.wrote[st]) + 1)]
        /\ rc_child' = [rc_child EXCEPT !.left[st] = @ - 1,
                                        !.wrote[st] = Append(@, Len(@) + 1)]
    /\ UNCHANGED <<rc_limits, rc_pc, rc_reader, rc_elapsed, rc_poll, rc_result>>
    /\ UNCHANGED NotRunCommand

\* the child has written everything and exits by itself
ChildExits ==
    /\ rc_child.state = "running"
    /\ ~rc_child.hangs
    /\ \A st \in Streams : rc_child.left[st] = 0
    /\ rc_child' = [rc_child EXCEPT !.state = "exited"]
    /\ UNCHANGED <<rc_limits, rc_pc, rc_pipe, rc_reader, rc_elapsed, rc_poll, rc_result>>
    /\ UNCHANGED NotRunCommand

\* runner.rs:182-186: read_to_end of one reader takes a byte from its pipe
ReaderReadsFrom(st) ==
    /\ rc_reader[st].state = "reading"
    /\ ReaderRuns(st, rc_reader)
    /\ rc_pipe[st] # <<>>
    /\ rc_reader' = [rc_reader EXCEPT ![st].buf = Append(@, Head(rc_pipe[st]))]
    /\ rc_pipe' = [rc_pipe EXCEPT ![st] = Tail(@)]

ReaderReads ==
    /\ \E st \in Streams : ReaderReadsFrom(st)
    /\ UNCHANGED <<rc_limits, rc_pc, rc_child, rc_elapsed, rc_poll, rc_result>>
    /\ UNCHANGED NotRunCommand

\* read_to_end returns: the pipe is empty and its write end is closed
ReaderEndOfStream ==
    /\ \E st \in Streams :
        /\ rc_reader[st].state = "reading"
        /\ ReaderRuns(st, rc_reader)
        /\ rc_pipe[st] = <<>>
        /\ rc_child.state \in {"exited", "killed", "reaped"}
        /\ rc_reader' = [rc_reader EXCEPT ![st].state = "eof"]
    /\ UNCHANGED <<rc_limits, rc_pc, rc_child, rc_pipe, rc_elapsed, rc_poll, rc_result>>
    /\ UNCHANGED NotRunCommand

\* time passes
RcTick ==
    /\ rc_pc \in {"try_wait", "deadline", "sleep"}
    /\ rc_elapsed < rc_limits.wall_time_ms + 2
    /\ rc_elapsed' = rc_elapsed + 1
    /\ UNCHANGED <<rc_limits, rc_pc, rc_child, rc_pipe, rc_reader, rc_poll, rc_result>>
    /\ UNCHANGED NotRunCommand

\* runner.rs:149-151: child.try_wait()
RcTryWait ==
    /\ rc_pc = "try_wait"
    /\ IF rc_child.state \in {"exited", "killed"}
       THEN /\ rc_child' = [rc_child EXCEPT !.state = "reaped"]
            /\ rc_poll' = [rc_poll EXCEPT !.saw = "exited"]
            /\ rc_result' = [rc_result EXCEPT
                                !.exit_code = IF rc_child.state = "exited" THEN <<0>>
                                              ELSE <<>>]
            /\ rc_pc' = "join_stdout"
       ELSE /\ rc_poll' = [rc_poll EXCEPT !.saw = "running"]
            /\ rc_pc' = "deadline"
            /\ UNCHANGED <<rc_child, rc_result>>
    /\ UNCHANGED <<rc_limits, rc_pipe, rc_reader, rc_elapsed>>
    /\ UNCHANGED NotRunCommand

\* runner.rs:152-155, 176-180: past the deadline timed_out is set and SIGKILL
\* goes to the child's process group
RcDeadline ==
    /\ rc_pc = "deadline"
    /\ IF DeadlinePassed(rc_elapsed, rc_limits.wall_time_ms)
       THEN /\ rc_result' = [rc_result EXCEPT !.timed_out = TRUE]
            /\ rc_poll' = [rc_poll EXCEPT !.kill_sent = TRUE, !.killed_at = rc_elapsed,
                                          !.killed_child = rc_child.state]
            /\ rc_child' = [rc_child EXCEPT
                                !.state = IF @ = "running" THEN "killed" ELSE @]
            /\ rc_pc' = "wait"
       ELSE /\ rc_pc' = "sleep"
            /\ UNCHANGED <<rc_result, rc_poll, rc_child>>
    /\ UNCHANGED <<rc_limits, rc_pipe, rc_reader, rc_elapsed>>
    /\ UNCHANGED NotRunCommand

\* runner.rs:155: child.wait() reaps the child
RcWait ==
    /\ rc_pc = "wait"
    /\ rc_child.state \in {"exited", "killed"}
    /\ rc_result' = [rc_result EXCEPT
                        !.exit_code = IF rc_child.state = "exited" THEN <<0>> ELSE <<>>]
    /\ rc_child' = [rc_child EXCEPT !.state = "reaped"]
    /\ rc_pc' = "join_stdout"
    /\ UNCHANGED <<rc_limits, rc_pipe, rc_reader, rc_elapsed, rc_poll>>
    /\ UNCHANGED NotRunCommand

\* runner.rs:157: thread::sleep of one poll interval
RcSleep ==
    /\ rc_pc = "sleep"
    /\ rc_elapsed' = IF rc_elapsed < rc_limits.wall_time_ms + 2
                     THEN rc_elapsed + 1 ELSE rc_elapsed
    /\ rc_pc' = "try_wait"
    /\ UNCHANGED <<rc_limits, rc_child, rc_pipe, rc_reader, rc_poll, rc_result>>
    /\ UNCHANGED NotRunCommand

\* runner.rs:161-173: join the stdout reader, then the stderr reader, then Ok
RcJoin ==
    /\ \E st \in Streams :
        /\ rc_pc = "join_" \o st
        /\ rc_reader[st].state = "eof"
        /\ rc_reader' = [rc_reader EXCEPT ![st].state = "joined"]
        /\ rc_result' =
            IF st = "stdout" THEN [rc_result EXCEPT !.stdout = rc_reader[st].buf]
            ELSE [rc_result EXCEPT !.stderr = rc_reader[st].buf, !.kind = "Ok"]
        /\ rc_pc' = IF st = "stdout" THEN "join_stderr" ELSE "done"
    /\ UNCHANGED <<rc_limits, rc_child, rc_pipe, rc_elapsed, rc_poll>>
    /\ UNCHANGED NotRunCommand

NextRunCommand ==
    \/ RcFork
    \/ ChildSetupStep
    \/ ChildExec
    \/ RcSpawned
    \/ ChildWrites
    \/ ChildExits
    \/ ReaderReads
    \/ ReaderEndOfStream
    \/ RcTick
    \/ RcTryWait
    \/ RcDeadline
    \/ RcWait
    \/ RcSleep
    \/ RcJoin

(***************************************************************************)
(* C21: the result of run_command has timed_out = true if and only if the  *)
(* kill signal was sent to the child's process group; the signal is sent   *)
(* only after a poll found the child still running and the elapsed time    *)
(* exceeded wall_time_ms; a child that a poll finds exited gives           *)
(* timed_out = false; and after the kill the child is reaped before        *)
(* run_command returns.                                                    *)
(***************************************************************************)
C21_WallClockEnforcement ==
    /\ rc_result.timed_out <=> rc_poll.kill_sent
    /\ rc_poll.kill_sent =>
            /\ rc_poll.saw = "running"
            /\ rc_poll.killed_at > rc_limits.wall_time_ms
            /\ rc_child.state # "running"
    /\ rc_poll.saw = "exited" => ~rc_result.timed_out /\ ~rc_poll.kill_sent
    /\ rc_result.kind = "Ok" => rc_child.state = "reaped"
    /\ rc_pc \in {"join_stdout", "join_stderr", "done"} =>
            rc_child.state \in {"reaped", "failed"}

\* a child that never exits is killed past the deadline and reaped
C21_Witness ==
    /\ rc_pc = "done"
    /\ rc_result.kind = "Ok"
    /\ rc_result.timed_out
    /\ rc_poll.killed_child = "running"
    /\ rc_child.hangs
    /\ rc_result.exit_code = <<>>

(***************************************************************************)
(* C22: stdout and stderr are drained by two threads that run side by      *)
(* side: a reader whose pipe holds data can always take it, whatever the   *)
(* other reader does, so run_command never stalls on a full pipe; and the  *)
(* result holds every byte the child wrote to either stream, both readers  *)
(* having reached end of stream and been joined.                           *)
(***************************************************************************)
C22_Progress ==
    \/ RcFork \/ ChildSetupStep \/ ChildExec \/ RcSpawned \/ ChildWrites \/ ChildExits
    \/ ReaderReads \/ ReaderEndOfStream \/ RcTryWait \/ RcDeadline \/ RcWait \/ RcSleep
    \/ RcJoin

C22_ConcurrentDrain ==
    /\ \A st \in Streams :
        (rc_pipe[st] # <<>> /\ rc_reader[st].state = "reading") => ENABLED ReaderReadsFrom(st)
    /\ rc_pc # "done" => ENABLED C22_Progress
    /\ rc_result.kind = "Ok" =>
            /\ rc_result.stdout = rc_child.wrote["stdout"]
            /\ rc_result.stderr = rc_child.wrote["stderr"]
            /\ \A st \in Streams : rc_reader[st].state = "joined" /\ rc_pipe[st] = <<>>

\* more than a pipe holds on both streams, and the child exited by itself
C22_Witness ==
    /\ rc_pc = "done"
    /\ rc_result.kind = "Ok"
    /\ ~rc_result.timed_out
    /\ Len(rc_result.stdout) > PipeCap
    /\ Len(rc_result.stderr) > PipeCap

(***************************************************************************)
(* C23: the child setup runs in the order new session, CPU limit (seconds  *)
(* = ceiling of cpu_time_ms / 1000), address-space limit, file-size limit, *)
(* open-files limit (128), each with hard = soft.  The target is exec'd    *)
(* only after all five succeeded; when a step fails the later ones are not *)
(* applied, the target is never exec'd and the spawn reports an error.     *)
(***************************************************************************)
C23_Order == <<"setsid", "RLIMIT_CPU", "RLIMIT_AS", "RLIMIT_FSIZE", "RLIMIT_NOFILE">>

C23_Seconds(ms) == CHOOSE n \in 0..ms : n * 1000 >= ms /\ (n = 0 \/ (n - 1) * 1000 < ms)

C23_Limit(resource) ==
    CASE resource = "RLIMIT_CPU" -> C23_Seconds(rc_limits.cpu_time_ms)
      [] resource = "RLIMIT_AS" -> rc_limits.memory_kb * 1024
      [] resource = "RLIMIT_FSIZE" -> rc_limits.file_size_kb * 1024
      [] resource = "RLIMIT_NOFILE" -> 128

C23_ChildSetupOrder ==
    /\ Len(rc_child.applied) <= 5
    /\ rc_child.applied = SubSeq(C23_Order, 1, Len(rc_child.applied))
    /\ rc_child.session <=> Len(rc_child.applied) >= 1
    /\ DOMAIN rc_child.limits =
            {rc_child.applied[i] : i \in DOMAIN rc_child.applied} \ {"setsid"}
    /\ \A r \in DOMAIN rc_child.limits :
            /\ rc_child.limits[r].rlim_cur = C23_Limit(r)
            /\ rc_child.limits[r].rlim_max = rc_child.limits[r].rlim_cur
    /\ rc_child.state \in {"running", "exited", "killed", "reaped"} =>
            rc_child.applied = C23_Order
    /\ rc_child.state = "failed" =>
            /\ Len(rc_child.applied) < 5
            /\ \A st \in Streams : rc_child.wrote[st] = <<>>
            /\ rc_pc \in {"spawning", "done"}
            /\ rc_pc = "done" => rc_result.kind = "Err: spawn command"

\* the address-space limit is refused: two steps applied, no exec, spawn error
C23_Witness ==
    /\ rc_child.state = "failed"
    /\ rc_child.applied = <<"setsid", "RLIMIT_CPU">>
    /\ rc_limits.cpu_time_ms = 1001
    /\ rc_child.limits["RLIMIT_CPU"].rlim_cur = 2
    /\ rc_result.kind = "Err: spawn command"

\* all five steps applied and the target exec'd
C23_WitnessExec ==
    /\ rc_child.state = "running"
    /\ rc_child.applied = C23_Order
    /\ rc_child.limits["RLIMIT_NOFILE"] = [rlim_cur |-> 128, rlim_max |-> 128]

(***************************************************************************)
(* classify_binding_attempts (validate.rs:581-641): the verdict of the     *)
(* validator on the expected binding of an option, from the analyses of    *)
(* the probe without an argument and of the probe with one.                *)
(***************************************************************************)
\* validate.rs BindingExpectation
BindingExpectations == {"Required", "Optional"}

\* validate.rs AttemptAnalysis, without its notes
AttemptAnalyses ==
    [unrecognized : BOOLEAN, missing_arg : BOOLEAN, arg_not_allowed : BOOLEAN,
     invalid_arg : BOOLEAN, ambiguous : BOOLEAN, exit_code : ExitCodes]

BindingResult(status, note) == [status |-> status, note |-> note]

PendingBinding == BindingResult("pending", <<>>)

\* validate.rs:593-597
ambiguous_note(missing, with_arg) ==
    IF missing.ambiguous \/ with_arg.ambiguous
    THEN <<"ambiguous option response">>
    ELSE <<>>

classify_binding_attempts_NotAllowedFirst(expectation, missing, with_arg) ==
    IF missing.unrecognized \/ with_arg.unrecognized
    THEN BindingResult("Refuted", <<"unrecognized option response">>)
    ELSE IF with_arg.arg_not_allowed
    THEN BindingResult("Refuted", <<"argument not allowed response observed">>)
    ELSE IF missing.missing_arg
    THEN BindingResult(IF expectation = "Required" THEN "Confirmed" ELSE "Refuted",
                       <<"missing argument response observed">>)
    ELSE IF expectation = "Optional" /\ with_arg.invalid_arg
    THEN BindingResult("Confirmed", <<"argument accepted with invalid value">>)
    ELSE IF expectation = "Optional"
            /\ missing.exit_code = <<0>> /\ with_arg.exit_code = <<0>>
    THEN BindingResult("Confirmed", <<"no argument errors detected">>)
    ELSE BindingResult("Undetermined", ambiguous_note(missing, with_arg))

\* validate.rs:581-641
classify_binding_attempts(expectation, missing, with_arg) ==
    IF missing.unrecognized \/ with_arg.unrecognized
    THEN BindingResult("Refuted", <<"unrecognized option response">>)
    ELSE IF expectation = "Required"
    THEN IF missing.missing_arg
         THEN BindingResult("Confirmed", <<"missing argument response observed">>)
         ELSE IF with_arg.arg_not_allowed
         THEN BindingResult("Refuted", <<"argument not allowed response observed">>)
         ELSE BindingResult("Undetermined", ambiguous_note(missing, with_arg))
    ELSE IF missing.missing_arg
         THEN BindingResult("Refuted", <<"missing argument response observed">>)
         ELSE IF with_arg.arg_not_allowed
         THEN BindingResult("Refuted", <<"argument not allowed response observed">>)
         ELSE IF with_arg.invalid_arg
         THEN BindingResult("Confirmed", <<"argument accepted with invalid value">>)
         ELSE IF missing.exit_code = <<0>> /\ with_arg.exit_code = <<0>>
         THEN BindingResult("Confirmed", <<"no argument errors detected">>)
         ELSE BindingResult("Undetermined", ambiguous_note(missing, with_arg))

InitBindingAttempts ==
    /\ ba_in \in [expectation : BindingExpectations, missing : AttemptAnalyses,
                  with_arg : AttemptAnalyses]
    /\ ba_out = PendingBinding

NotBindingAttempts ==
    <<plannerVars, classifyVars, inferVars, execVars, childVars, surfaceVars, runPlannerVars,
      analyzeVars, runCommandVars, stopCompareVars, exchangeVars, helpVars>>

\* the call classify_binding_attempts(expectation, &missing, &with_arg)
ClassifyBindingAttempts ==
    /\ ba_out = PendingBinding
    /\ ba_out' = classify_binding_attempts(ba_in.expectation, ba_in.missing, ba_in.with_arg)
    /\ UNCHANGED ba_in
    /\ UNCHANGED NotBindingAttempts

NextBindingAttempts == ClassifyBindingAttempts

(***************************************************************************)
(* C26: a binding expectation is Refuted when either probe saw the option  *)
(* rejected as unrecognized.  Otherwise, for Required: Confirmed when the  *)
(* probe without an argument reported a missing argument, else Refuted     *)
(* when the probe with an argument reported that none is allowed, else     *)
(* Undetermined.  For Optional: Refuted on a missing argument, else        *)
(* Refuted on argument not allowed, else Confirmed when the probe with an  *)
(* argument reported an invalid argument or both probes exited 0, else     *)
(* Undetermined.                                                           *)
(***************************************************************************)
C26_Unrecognized == ba_in.missing.unrecognized \/ ba_in.with_arg.unrecognized

C26_Required ==
    CASE ba_in.missing.missing_arg -> ba_out.status = "Confirmed"
      [] ~ba_in.missing.missing_arg /\ ba_in.with_arg.arg_not_allowed ->
            ba_out.status = "Refuted"
      [] OTHER -> ba_out.status = "Undetermined"

C26_Optional ==
    CASE ba_in.missing.missing_arg \/ ba_in.with_arg.arg_not_allowed ->
            ba_out.status = "Refuted"
      [] /\ ~ba_in.missing.missing_arg /\ ~ba_in.with_arg.arg_not_allowed
         /\ \/ ba_in.with_arg.invalid_arg
            \/ ba_in.missing.exit_code = <<0>> /\ ba_in.with_arg.exit_code = <<0>> ->
            ba_out.status = "Confirmed"
      [] OTHER -> ba_out.status = "Undetermined"

C26_BindingDecisionTable ==
    ba_out # PendingBinding =>
        IF C26_Unrecognized THEN ba_out.status = "Refuted"
        ELSE IF ba_in.expectation = "Required" THEN C26_Required
        ELSE C26_Optional

\* Required, both signals present: the missing-argument response wins
C26_Witness ==
    /\ ba_out.status = "Confirmed"
    /\ ba_in.expectation = "Required"
    /\ ba_in.missing.missing_arg /\ ba_in.with_arg.arg_not_allowed

\* Optional confirmed by two clean exits alone
C26_WitnessCleanExits ==
    /\ ba_out.status = "Confirmed"
    /\ ba_in.expectation = "Optional" /\ ~ba_in.with_arg.invalid_arg
    /\ ba_in.missing.exit_code = <<0>> /\ ba_in.with_arg.exit_code = <<0>>

(***************************************************************************)
(* execute_plan (main.rs:182-312) as a function of the plan, the help      *)
(* hints and the behaviour of the target, to compare two calls on the same *)
(* target: one with the plan's stop rules and one with both switched off.  *)
(***************************************************************************)
\* the target answers a probe type the same way whenever it is asked; the
\* text names the option it was asked about
Behaviours == [ProbeType -> ExecAttempts(<<>>)]

AboutOption(frags, option) ==
    [j \in DOMAIN frags |->
        IF frags[j].phrase \in {PhUnrecognized, PhRequiresArg, PhNotAllowed, PhInvalidArg}
        THEN Frag(frags[j].phrase, option) ELSE frags[j]]

OutcomeOf(outcome, kind, option, form_hint) ==
    [outcome[kind] EXCEPT !.args = ProbeArgs(kind, option, form_hint),
                          !.stdout = AboutOption(@, option),
                          !.stderr = AboutOption(@, option)]

NoLocals == [existence |-> <<>>, invalid_value |-> <<>>, option_at_end |-> <<>>, ran |-> 0]

\* `for probe in &planned.probes` (main.rs:203-241) from its i-th iteration on:
\* the locals when the loop is left
RECURSIVE probe_loop(_, _, _, _, _, _)
probe_loop(p, planned, form_hint, outcome, i, loc) ==
    IF i > Len(planned.probes) THEN loc
    ELSE LET kind == planned.probes[i]
             attempt == OutcomeOf(outcome, kind, planned.option, form_hint)
             run == ProbeRunOf(planned.option, attempt, kind, i)
             exist == IF kind = "Existence"
                      THEN <<ExistenceOf(planned.option, attempt, i)>>
                      ELSE loc.existence
             invalid == IF kind = "InvalidValue" THEN <<run>> ELSE loc.invalid_value
             end == IF kind = "OptionAtEnd" THEN <<run>> ELSE loc.option_at_end
             next == [existence |-> exist, invalid_value |-> invalid,
                      option_at_end |-> end, ran |-> i]
         IN IF \/ StopOnUnrecognized(p, exist)
               \/ StopOnBindingConfirmed(p, exist, invalid, end, form_hint)
            THEN next
            ELSE probe_loop(p, planned, form_hint, outcome, i + 1, next)

\* main.rs:194-310: one OptionSurface per planned option, in plan order
\* main.rs:243-310: the OptionSurface built from the locals the loop left
SurfaceOf(option, form_hint, loc) ==
    [surface |-> OptionSurface(option, loc.existence, loc.invalid_value, loc.option_at_end,
                               form_hint),
     ran |-> loc.ran]

\* main.rs:194-310: one OptionSurface per planned option, in plan order
execute_plan(p, hints, outcome) ==
    LET each == [k \in DOMAIN p.options |->
                    SurfaceOf(p.options[k].option, hints[p.options[k].option],
                              probe_loop(p, p.options[k], hints[p.options[k].option],
                                         outcome, 1, NoLocals))]
    IN [surfaces |-> [k \in DOMAIN each |-> each[k].surface],
        ran |-> [k \in DOMAIN each |-> each[k].ran]]

StopRulesOff == [stop_on_unrecognized |-> FALSE, stop_on_binding_confirmed |-> FALSE]

NoCalls == [c \in {"planned", "off"} |-> [surfaces |-> <<>>, ran |-> <<>>]]

\* the requests compared: one detected option, at least one stop rule on.  The
\* locals of the probe loop are declared per planned option (main.rs:199-201),
\* so the surface of an option depends on no other option of the plan.
CompareRequests ==
    {req \in ExecRequests(StopRuleValues \ {StopRulesOff}) : Len(req.options) = 1}

InitStopCompare ==
    /\ sc_plan \in UNION {ValidPlans(req) : req \in CompareRequests}
    /\ sc_hints \in HintMaps
    /\ sc_outcome \in Behaviours
    /\ sc_done = {}
    /\ sc_out = NoCalls

NotStopCompare ==
    <<plannerVars, classifyVars, inferVars, execVars, childVars, surfaceVars, runPlannerVars,
      analyzeVars, runCommandVars, bindingAttemptsVars, exchangeVars, helpVars>>

\* execute_plan(binary, env, &plan, help_options)
ExecuteAsPlanned ==
    /\ sc_done = {}
    /\ sc_done' = {"planned"}
    /\ sc_out' = [sc_out EXCEPT !["planned"] = execute_plan(sc_plan, sc_hints, sc_outcome)]
    /\ UNCHANGED <<sc_plan, sc_hints, sc_outcome>>
    /\ UNCHANGED NotStopCompare

\* the same call on the same plan with both stop rules false
ExecuteStopRulesOff ==
    /\ sc_done = {"planned"}
    /\ sc_done' = {"planned", "off"}
    /\ sc_out' = [sc_out EXCEPT !["off"] =
                    execute_plan([sc_plan EXCEPT !.stop_rules = StopRulesOff], sc_hints,
                                 sc_outcome)]
    /\ UNCHANGED <<sc_plan, sc_hints, sc_outcome>>
    /\ UNCHANGED NotStopCompare

NextStopCompare ==
    \/ ExecuteAsPlanned
    \/ ExecuteStopRulesOff

(***************************************************************************)
(* C27: the stop rules only prune.  For every validated plan and every     *)
(* fixed answer of the target to each probe type, the existence status and *)
(* the binding status and kind of every option are the same with the       *)
(* plan's stop rules as with both stop rules off; only fewer probes are    *)
(* spawned and the evidence lists may be shorter.                          *)
(***************************************************************************)
C27_SameVerdict(a, b) ==
    /\ a.option = b.option
    /\ a.existence.status = b.existence.status
    /\ a.binding.status = b.binding.status
    /\ a.binding.kind = b.binding.kind

C27_StopRulesOnlyPrune ==
    sc_done = {"planned", "off"} =>
        /\ DOMAIN sc_out["planned"].surfaces = DOMAIN sc_out["off"].surfaces
        /\ \A k \in DOMAIN sc_out["planned"].surfaces :
            /\ C27_SameVerdict(sc_out["planned"].surfaces[k], sc_out["off"].surfaces[k])
            /\ sc_out["planned"].ran[k] <= sc_out["off"].ran[k]
            /\ Len(sc_out["planned"].surfaces[k].existence.evidence)
                   <= Len(sc_out["off"].surfaces[k].existence.evidence)
            /\ Len(sc_out["planned"].surfaces[k].binding.evidence)
                   <= Len(sc_out["off"].surfaces[k].binding.evidence)

\* stop_on_binding_confirmed cut the option-at-end probe off
C27_Witness ==
    /\ sc_done = {"planned", "off"}
    /\ \E k \in DOMAIN sc_out["planned"].surfaces :
        /\ sc_out["planned"].ran[k] < sc_out["off"].ran[k]
        /\ sc_out["planned"].surfaces[k].binding.status = "Confirmed"
        /\ Len(sc_out["planned"].surfaces[k].binding.evidence)
               < Len(sc_out["off"].surfaces[k].binding.evidence)

\* stop_on_unrecognized cut the probes after a refuted existence probe off
C27_WitnessUnrecognized ==
    /\ sc_done = {"planned", "off"}
    /\ \E k \in DOMAIN sc_out["planned"].surfaces :
        /\ sc_out["planned"].ran[k] < sc_out["off"].ran[k]
        /\ sc_out["planned"].surfaces[k].existence.status = "Refuted"

(***************************************************************************)
(* C29: after successful runs that share a cache directory, its files are  *)
(* mutually consistent: plan.json and planner_request.json describe the    *)
(* plan and budget surface.json was produced from, also when a run with    *)
(* another plan or budget took the cache-hit return.                       *)
(***************************************************************************)
\* every run so far returned Ok: each file holds the whole text of a run, and
\* a run that wrote surface.md in full returned Ok (main.rs:174-179)
C29_AfterSuccessfulRuns ==
    /\ s_pc = "done" /\ s_result = "ok"
    /\ \A f \in Files : s_disk[f].state = "complete"

\* the plan and budget of the run that wrote file f
C29_PlanOf(f) == s_plan[s_disk[f].by]

C29_CacheFilesConsistent ==
    C29_AfterSuccessfulRuns =>
        /\ C29_PlanOf("plan.json") = C29_PlanOf("surface.json")
        /\ C29_PlanOf("planner_request.json") = C29_PlanOf("surface.json")
        /\ C29_PlanOf("surface.md") = C29_PlanOf("surface.json")

(***************************************************************************)
(* The exchange of run_planner with the planner command (planner.rs:69-80) *)
(*                                                                         *)
(* The planner is spawned with three pipes.  run_planner writes the whole  *)
(* request into the stdin pipe with write_all, drops the handle, and only  *)
(* then calls wait_with_output, which reads stdout and stderr to their end *)
(* and reaps the child.  A pipe holds PlannerPipeCap bytes: a write to a   *)
(* full pipe blocks, a read from an empty pipe blocks while its write end  *)
(* is open.                                                                *)
(***************************************************************************)
\* bounds of the exchange
PlannerPipeCap == 1    \* bytes a pipe holds
MaxRequestLen == 2     \* bytes of request_json
MaxPlannerSteps == 3   \* reads and writes the planner makes before it exits

Pipes == {"stdin", "stdout", "stderr"}

EmptyPipes == [p \in Pipes |-> 0]

\* one step of a planner: read a byte of stdin, write a byte to stdout or stderr
PlannerSteps == {"read", "stdout", "stderr"}

\* the planners: any order of reads and writes, then exit
PlannerPrograms == ListsUpTo(PlannerSteps, MaxPlannerSteps)

InitExchange ==
    /\ pe_left \in 0..MaxRequestLen
    /\ pe_pc = "write_all"
    /\ pe_program \in PlannerPrograms
    /\ pe_child = "running"
    /\ pe_pipe = EmptyPipes
    /\ pe_result = "pending"

NotExchange ==
    <<plannerVars, classifyVars, inferVars, execVars, childVars, surfaceVars, runPlannerVars,
      analyzeVars, runCommandVars, bindingAttemptsVars, stopCompareVars, helpVars>>

\* a write to the pipe does not block
HasRoom(p) == pe_pipe[p] < PlannerPipeCap

\* planner.rs:77: write_all writes the next byte of the request
PeWrite ==
    /\ pe_pc = "write_all" /\ pe_left > 0
    /\ pe_child = "running" /\ HasRoom("stdin")
    /\ pe_pipe' = [pe_pipe EXCEPT !["stdin"] = @ + 1]
    /\ pe_left' = pe_left - 1
    /\ UNCHANGED <<pe_pc, pe_program, pe_child, pe_result>>
    /\ UNCHANGED NotExchange

\* planner.rs:77: the planner has exited, the write fails with EPIPE and the
\* `?` returns the error
PeWriteBroken ==
    /\ pe_pc = "write_all" /\ pe_left > 0
    /\ pe_child = "exited"
    /\ pe_pc' = "done"
    /\ pe_result' = "error"
    /\ UNCHANGED <<pe_left, pe_program, pe_child, pe_pipe>>
    /\ UNCHANGED NotExchange

\* planner.rs:78: write_all returned, the stdin handle is dropped
PeDropStdin ==
    /\ pe_pc = "write_all" /\ pe_left = 0
    /\ pe_pc' = "wait_with_output"
    /\ UNCHANGED <<pe_left, pe_program, pe_child, pe_pipe, pe_result>>
    /\ UNCHANGED NotExchange

\* planner.rs:80: wait_with_output reads a byte of stdout or stderr
PeReadOutput ==
    /\ pe_pc = "wait_with_output"
    /\ \E p \in {"stdout", "stderr"} :
        /\ pe_pipe[p] > 0
        /\ pe_pipe' = [pe_pipe EXCEPT ![p] = @ - 1]
    /\ UNCHANGED <<pe_left, pe_pc, pe_program, pe_child, pe_result>>
    /\ UNCHANGED NotExchange

\* planner.rs:80: both pipes are at their end and the child is reaped
PeWait ==
    /\ pe_pc = "wait_with_output"
    /\ pe_child = "exited"
    /\ pe_pipe["stdout"] = 0 /\ pe_pipe["stderr"] = 0
    /\ pe_pc' = "done"
    /\ pe_result' = "returned"
    /\ UNCHANGED <<pe_left, pe_program, pe_child, pe_pipe>>
    /\ UNCHANGED NotExchange

\* the planner reads a byte of its stdin, or sees the end of it once
\* run_planner has dropped the handle
PlannerReads ==
    /\ pe_child = "running"
    /\ pe_program # <<>> /\ Head(pe_program) = "read"
    /\ \/ /\ pe_pipe["stdin"] > 0
          /\ pe_pipe' = [pe_pipe EXCEPT !["stdin"] = @ - 1]
       \/ /\ pe_pipe["stdin"] = 0 /\ pe_pc # "write_all"
          /\ UNCHANGED pe_pipe
    /\ pe_program' = Tail(pe_program)
    /\ UNCHANGED <<pe_left, pe_pc, pe_child, pe_result>>
    /\ UNCHANGED NotExchange

\* the planner writes a byte to its stdout or its stderr
PlannerWrites ==
    /\ pe_child = "running"
    /\ pe_program # <<>> /\ Head(pe_program) \in {"stdout", "stderr"}
    /\ HasRoom(Head(pe_program))
    /\ pe_pipe' = [pe_pipe EXCEPT ![Head(pe_program)] = @ + 1]
    /\ pe_program' = Tail(pe_program)
    /\ UNCHANGED <<pe_left, pe_pc, pe_child, pe_result>>
    /\ UNCHANGED NotExchange

\* the planner exits: what it did not read of its stdin is discarded
PlannerExits ==
    /\ pe_child = "running"
    /\ pe_program = <<>>
    /\ pe_child' = "exited"
    /\ pe_pipe' = [pe_pipe EXCEPT !["stdin"] = 0]
    /\ UNCHANGED <<pe_left, pe_pc, pe_program, pe_result>>
    /\ UNCHANGED NotExchange

NextExchange ==
    \/ PeWrite
    \/ PeWriteBroken
    \/ PeDropStdin
    \/ PeReadOutput
    \/ PeWait
    \/ PlannerReads
    \/ PlannerWrites
    \/ PlannerExits

(***************************************************************************)
(* C30: the exchange with the planner cannot deadlock.  For every planner  *)
(* that reads its stdin and writes its stdout and stderr in any order and  *)
(* then exits, and for every request size, run_planner is never stuck:     *)
(* until it has returned, run_planner or the planner can take a step.      *)
(***************************************************************************)
C30_ExchangeNeverStuck ==
    pe_pc # "done" => ENABLED NextExchange

\* the state the exchange gets stuck in: write_all blocked on a full stdin
\* pipe while the planner is blocked writing its output
C30_StuckInWriteAll ==
    /\ pe_pc = "write_all" /\ pe_left > 0 /\ ~HasRoom("stdin")
    /\ pe_child = "running" /\ pe_program # <<>>
    /\ Head(pe_program) \in {"stdout", "stderr"} /\ ~HasRoom(Head(pe_program))

\* the exchange is stuck in no other state: once write_all has returned, the
\* exchange goes on until run_planner returns
C30_StuckOnlyInWriteAll ==
    (pe_pc # "done" /\ ~ENABLED NextExchange) => C30_StuckInWriteAll

(***************************************************************************)
(* The help parser: extract_help_options (help.rs)                         *)
(*                                                                         *)
(* A help text is a sequence of lines, a line a sequence of characters.    *)
(* None of Option<T> is <<>>, Some(x) is <<x>>.                            *)
(***************************************************************************)
\* the character classes over the characters of the modelled lines
AsciiUppercase == {"W"}
AsciiAlphanumeric == {"a", "l", "s", "e", "h", "o", "w"} \cup AsciiUppercase

HStartsWith(s, p) == Len(s) >= Len(p) /\ SubSeq(s, 1, Len(p)) = p

\* `let v = value;` followed by F(v): the value is computed once
With(value, F(_)) == CHOOSE r \in {F(v) : v \in {value}} : TRUE

\* Some(the least element), None for the empty set
MinOf(S) == IF S = {} THEN <<>> ELSE <<CHOOSE i \in S : \A j \in S : i <= j>>

\* str::find: the 0-based offset of the first match, None without one
HFind(s, p) == MinOf({i \in 0..(Len(s) - Len(p)) : SubSeq(s, i + 1, i + Len(p)) = p})

\* help.rs:234-236
is_whitespace(byte) == byte \in {" ", "\t"}

RECURSIVE trim_start(_)
trim_start(s) == IF s # <<>> /\ is_whitespace(Head(s)) THEN trim_start(Tail(s)) ELSE s

RECURSIVE trim_end(_)
trim_end(s) ==
    IF s # <<>> /\ is_whitespace(s[Len(s)]) THEN trim_end(SubSeq(s, 1, Len(s) - 1)) ELSE s

\* help.rs:157-160
looks_like_option_table(line) ==
    /\ HStartsWith(trim_start(line), <<"-">>)
    /\ ~HStartsWith(trim_start(line), <<"-", "-", "-">>)

\* help.rs:467-479
is_upper_placeholder(token) ==
    /\ \A i \in DOMAIN token : token[i] \in AsciiUppercase \cup {"-", "_"}
    /\ \E i \in DOMAIN token : token[i] \in AsciiUppercase

\* help.rs:439-465: Some(optional) for an argument placeholder
classify_arg_token(token) ==
    IF token = <<>> THEN <<>>
    ELSE IF Len(token) >= 2 /\ Head(token) = "[" /\ token[Len(token)] = "]"
    THEN IF Len(token) = 2 THEN <<>> ELSE <<TRUE>>
    ELSE IF Len(token) >= 2 /\ Head(token) = "<" /\ token[Len(token)] = ">"
    THEN IF Len(token) = 2 THEN <<>> ELSE <<FALSE>>
    ELSE IF is_upper_placeholder(token) THEN <<FALSE>>
    ELSE <<>>

ArgToken(optional, source) == [optional |-> optional, source |-> source]

\* help.rs:395-429: (opt_part, arg_form)
split_attached_arg_form(token) ==
    With(HFind(token, <<"[", "=">>), LAMBDA open :
    With(HFind(token, <<"=">>), LAMBDA eq :
        IF open # <<>> /\ token[Len(token)] = "]"
        THEN IF SubSeq(token, open[1] + 3, Len(token) - 1) = <<>> THEN <<>>
             ELSE <<[opt |-> SubSeq(token, 1, open[1]),
                     arg |-> <<ArgToken(TRUE, "Attached")>>]>>
        ELSE IF eq # <<>>
        THEN IF SubSeq(token, eq[1] + 2, Len(token)) = <<>> THEN <<>>
             ELSE <<[opt |-> SubSeq(token, 1, eq[1]),
                     arg |-> <<ArgToken(FALSE, "Attached")>>]>>
        ELSE <<[opt |-> token, arg |-> <<>>]>>))

\* help.rs:339-367
parse_long_option_segment(segment) ==
    IF ~HStartsWith(segment, <<"-", "-">>) \/ Len(segment) <= 2 THEN <<>>
    ELSE With(split_attached_arg_form(segment), LAMBDA parsed :
         IF parsed = <<>> THEN <<>>
         ELSE With(SubSeq(parsed[1].opt, 3, Len(parsed[1].opt)), LAMBDA name :
              IF name = <<>> THEN <<>>
              ELSE IF Head(name) \notin AsciiAlphanumeric THEN <<>>
              ELSE IF \E i \in DOMAIN name : name[i] \notin AsciiAlphanumeric \cup {"-"}
              THEN <<>>
              ELSE parsed))

\* help.rs:369-393
parse_short_option_segment(segment) ==
    IF ~HStartsWith(segment, <<"-">>) \/ HStartsWith(segment, <<"-", "-">>) THEN <<>>
    ELSE IF Len(segment) < 2 THEN <<>>
    ELSE With(split_attached_arg_form(segment), LAMBDA parsed :
         IF parsed = <<>> THEN <<>>
         ELSE With(SubSeq(parsed[1].opt, 2, Len(parsed[1].opt)), LAMBDA name :
              IF Len(name) # 1 THEN <<>>
              ELSE IF Head(name) \notin AsciiAlphanumeric THEN <<>>
              ELSE parsed))

\* help.rs:332-337
parse_option_segment(segment) ==
    With(parse_long_option_segment(segment), LAMBDA parsed :
        IF parsed # <<>> THEN parsed ELSE parse_short_option_segment(segment))

\* help.rs:431-437
parse_trailing_arg_segment(segment) ==
    With(classify_arg_token(segment), LAMBDA optional :
        IF optional = <<>> THEN <<>> ELSE <<ArgToken(optional[1], "Trailing")>>)

\* help.rs:481-483
RECURSIVE trim_token_punct(_)
trim_token_punct(token) ==
    IF token # <<>> /\ token[Len(token)] \in {",", ";", ":"}
    THEN trim_token_punct(SubSeq(token, 1, Len(token) - 1))
    ELSE token

\* help.rs:485-488
looks_like_option_token(token) == parse_option_segment(trim_token_punct(token)) # <<>>
\* help.rs:490-493
looks_like_arg_token(token) == classify_arg_token(trim_token_punct(token)) # <<>>
\* help.rs:495-497
looks_like_separator_token(token) == token \in {<<",">>, <<";">>}

\* help.rs:5
SINGLE_SPACE_SPLIT_MAX_LEN == 72

\* help.rs:214-232: the tokens of a line as (start, end), start 0-based
token_spans(line) ==
    {[start |-> i - 1,
      end |-> CHOOSE j \in i..Len(line) :
                  /\ \A k \in i..j : ~is_whitespace(line[k])
                  /\ (j = Len(line) \/ is_whitespace(line[j + 1]))] :
        i \in {i \in DOMAIN line :
                  ~is_whitespace(line[i]) /\ (i = 1 \/ is_whitespace(line[i - 1]))}}

SpanText(line, span) == SubSeq(line, span.start + 1, span.end)

\* help.rs:171-175
split_on_double_space_index(line) ==
    MinOf({i \in 0..(Len(line) - 2) :
              is_whitespace(line[i + 1]) /\ is_whitespace(line[i + 2])})

\* help.rs:177-212
\* help.rs:185-198: the tokens of the line with `is_option` and `is_spec`
ClassifiedSpans(line) ==
    {[start |-> s.start,
      is_option |-> looks_like_option_token(SpanText(line, s)),
      is_spec |-> \/ looks_like_option_token(SpanText(line, s))
                  \/ looks_like_arg_token(SpanText(line, s))
                  \/ looks_like_separator_token(SpanText(line, s))] :
        s \in token_spans(line)}

split_on_single_space_fallback(line) ==
    With(ClassifiedSpans(line), LAMBDA spans :
        IF Len(line) > SINGLE_SPACE_SPLIT_MAX_LEN THEN <<>>
        ELSE IF ~\E s \in spans : s.is_option THEN <<>>
        ELSE IF Cardinality({s \in spans : s.is_spec})
                    < Cardinality({s \in spans : ~s.is_spec})
        THEN <<>>
        \* the first token that is no spec token, met after an option token
        ELSE MinOf({s.start : s \in {s \in spans :
                        ~s.is_spec /\ \E o \in spans : o.is_option /\ o.start < s.start}}))

\* help.rs:163-169
option_spec_segment(line) ==
    With(trim_end(trim_start(line)), LAMBDA trimmed :
    With(split_on_double_space_index(trimmed), LAMBDA double :
    With(IF double # <<>> THEN double ELSE split_on_single_space_fallback(trimmed),
         LAMBDA idx :
            IF idx # <<>> THEN trim_end(SubSeq(trimmed, 1, idx[1])) ELSE trimmed)))

\* help.rs:136-154: the spec segments of the lines that look like option rows
RECURSIVE detect_option_rows(_)
detect_option_rows(content) ==
    IF content = <<>> THEN <<>>
    ELSE IF ~looks_like_option_table(Head(content)) THEN detect_option_rows(Tail(content))
    ELSE With(option_spec_segment(Head(content)), LAMBDA spec :
            IF spec = <<>> THEN detect_option_rows(Tail(content))
            ELSE <<spec>> \o detect_option_rows(Tail(content)))

\* help.rs SpecToken
OptionTok(raw) == [kind |-> "Option", raw |-> raw, optional |-> FALSE, source |-> None]
ArgTok(arg) ==
    [kind |-> "Arg", raw |-> <<>>, optional |-> arg.optional, source |-> arg.source]
SeparatorTok == [kind |-> "Separator", raw |-> <<>>, optional |-> FALSE, source |-> None]

\* help.rs:263-277: the tokens a segment adds
flush_spec_segment(segment) ==
    IF segment = <<>> THEN <<>>
    ELSE With(parse_option_segment(segment), LAMBDA parsed :
         IF parsed # <<>>
         THEN <<OptionTok(parsed[1].opt)>>
                 \o (IF parsed[1].arg # <<>> THEN <<ArgTok(parsed[1].arg[1])>> ELSE <<>>)
         ELSE With(parse_trailing_arg_segment(segment), LAMBDA arg :
                IF arg # <<>> THEN <<ArgTok(arg[1])>> ELSE <<>>))

\* help.rs:246-261: the tokens of a word, `segment` being what was read of it
RECURSIVE tokenize_word(_, _)
tokenize_word(word, segment) ==
    IF word = <<>> THEN flush_spec_segment(segment)
    ELSE IF Head(word) \in {",", ";"}
    THEN flush_spec_segment(segment) \o <<SeparatorTok>> \o tokenize_word(Tail(word), <<>>)
    ELSE IF Head(word) = ":"
    THEN flush_spec_segment(segment) \o tokenize_word(Tail(word), <<>>)
    ELSE With(Append(segment, Head(word)), LAMBDA read : tokenize_word(Tail(word), read))

\* str::split_whitespace
RECURSIVE split_whitespace(_)
split_whitespace(s) ==
    With(trim_start(s), LAMBDA t :
    With(MinOf({i \in DOMAIN t : is_whitespace(t[i])}), LAMBDA ws :
    With(IF ws # <<>> THEN ws[1] - 1 ELSE Len(t), LAMBDA n :
        IF t = <<>> THEN <<>>
        ELSE <<SubSeq(t, 1, n)>> \o split_whitespace(SubSeq(t, n + 1, Len(t))))))

RECURSIVE TokensOfWords(_)
TokensOfWords(words) ==
    IF words = <<>> THEN <<>>
    ELSE tokenize_word(Head(words), <<>>) \o TokensOfWords(Tail(words))

\* help.rs:238-244
tokenize_spec(spec) == TokensOfWords(split_whitespace(spec))

\* help.rs:304-310
prefer_arg_spec(existing, candidate) ==
    IF existing.source = "Trailing" /\ candidate.source = "Attached"
    THEN candidate
    ELSE existing

\* help.rs:283-296: the `arg` of the loop over the tokens
RECURSIVE ArgOfTokens(_, _)
ArgOfTokens(tokens, arg) ==
    IF tokens = <<>> THEN arg
    ELSE IF Head(tokens).kind = "Arg"
    THEN With(ArgToken(Head(tokens).optional, Head(tokens).source), LAMBDA candidate :
         With(IF arg = <<>> THEN <<candidate>> ELSE <<prefer_arg_spec(arg[1], candidate)>>,
              LAMBDA next : ArgOfTokens(Tail(tokens), next)))
    ELSE ArgOfTokens(Tail(tokens), arg)

\* help.rs:279-302
parse_option_spec(tokens) ==
    With(SelectSeq(tokens, LAMBDA t : t.kind = "Option"), LAMBDA options :
        IF options = <<>> THEN <<>>
        ELSE <<[options |-> [i \in DOMAIN options |-> options[i].raw],
                arg |-> ArgOfTokens(tokens, <<>>)]>>)

\* help.rs BindingHint
BindingHint(optional, form) == [optional |-> optional, form |-> form]

merge_binding_hint_LastWins(existing, incoming) ==
    IF incoming = <<>> THEN existing ELSE incoming

\* help.rs:112-124
merge_binding_hint(existing, incoming) ==
    IF existing = <<>> THEN incoming
    ELSE IF incoming = <<>> THEN existing
    ELSE IF existing[1].form = "Trailing" /\ incoming[1].form = "Attached"
    THEN incoming
    ELSE existing

index_get_Miss(options, option) == <<>>

\* help.rs:93: index.get(&option), the position of the option's record
index_get(options, option) ==
    IF \E i \in DOMAIN options : options[i].option = option
    THEN <<CHOOSE i \in DOMAIN options : options[i].option = option>>
    ELSE <<>>

\* help.rs:92-107: the loop over the option tokens of one row
RECURSIVE MergeRowOptions(_, _, _)
MergeRowOptions(options, names, binding) ==
    IF names = <<>> THEN options
    ELSE With(index_get(options, Head(names)), LAMBDA idx :
         With(IF idx # <<>>
              THEN [options EXCEPT ![idx[1]].binding = merge_binding_hint(@, binding)]
              ELSE Append(options, [option |-> Head(names), binding |-> binding]),
              LAMBDA merged : MergeRowOptions(merged, Tail(names), binding)))

\* help.rs:72-108: one iteration of the loop over the rows
MergeRow(options, row) ==
    With(tokenize_spec(row), LAMBDA tokens :
    With(parse_option_spec(tokens), LAMBDA spec :
        IF spec = <<>> THEN options
        ELSE With(IF spec[1].arg = <<>> THEN <<>>
                  ELSE <<BindingHint(spec[1].arg[1].optional, spec[1].arg[1].source)>>,
                  LAMBDA binding : MergeRowOptions(options, spec[1].options, binding))))

\* bound of the help texts
MaxLines == 3          \* lines of a help text

\* the lines of the help texts
HelpLines ==
    {<<"-", "a">>,  \* a short option alone
     <<" ", " ", "-", "-", "a", "l", "l", " ", " ", "s", "h", "o", "w", " ", "a", "l", "l">>,  \* indented row, description after two spaces
     <<"-", "a", ",", " ", "-", "-", "a", "l", "l">>,  \* two tokens in one row
     <<"-", "-", "a", "l", "l", "=", "W">>,  \* attached required value
     <<"-", "-", "a", "l", "l", " ", "W">>,  \* trailing value
     <<"-", "a", " ", "W", ",", " ", "-", "-", "a", "l", "l", "=", "W">>,  \* both forms in one row, trailing first
     <<"-", "-", "a", "l", "l", "[", "=", "W", "]", ",", " ", "-", "a", " ", "W">>,  \* both forms in one row, attached first
     <<"l", "s", " ", "-", "-", "a", "l", "l", "=", "W">>,  \* an example line, not an option row
     <<"-", "-", "-", " ", "-", "-", "a", "l", "l">>,  \* a rule line
     <<"-", "-", "a", "l", "l", " ", " ", "s", "e", "e", " ", "-", "a">>,  \* an option token in the description
     <<"-", "a", " ", "W", " ", "a", "l", "l">>}  \* description after one space

HelpTexts == ListsUpTo(HelpLines, MaxLines)

InitHelp ==
    /\ he_content \in HelpTexts
    /\ he_pc = "detect"
    /\ he_rows = <<>>
    /\ he_i = 0
    /\ he_options = <<>>

NotHelp ==
    <<plannerVars, classifyVars, inferVars, execVars, childVars, surfaceVars, runPlannerVars,
      analyzeVars, runCommandVars, bindingAttemptsVars, stopCompareVars, exchangeVars>>

\* help.rs:72: detect_option_rows(content, looks_like_option_table)
HeDetectRows ==
    /\ he_pc = "detect"
    /\ he_rows' = detect_option_rows(he_content)
    /\ he_pc' = "rows"
    /\ UNCHANGED <<he_content, he_i, he_options>>
    /\ UNCHANGED NotHelp

\* help.rs:72-108: the next row is parsed and its option tokens are merged
HeRow ==
    /\ he_pc = "rows" /\ he_i < Len(he_rows)
    /\ he_options' = MergeRow(he_options, he_rows[he_i + 1])
    /\ he_i' = he_i + 1
    /\ UNCHANGED <<he_content, he_pc, he_rows>>
    /\ UNCHANGED NotHelp

\* help.rs:110
HeReturn ==
    /\ he_pc = "rows" /\ he_i = Len(he_rows)
    /\ he_pc' = "done"
    /\ UNCHANGED <<he_content, he_rows, he_i, he_options>>
    /\ UNCHANGED NotHelp

NextHelp ==
    \/ HeDetectRows
    \/ HeRow
    \/ HeReturn

(***************************************************************************)
(* C24: extract_help_options returns exactly one record per distinct       *)
(* option token, ordered by the first occurrence of each token in the      *)
(* rows of the help text; a repeated mention adds no record and moves      *)
(* none.  Lines whose first non-whitespace character is not '-', or that   *)
(* begin with '---', contribute no record, whatever tokens they contain.   *)
(* The formula holds after every row the loop has processed.               *)
(***************************************************************************)
\* the option tokens a row mentions, in order
C24_RowTokens(row) ==
    LET toks == SelectSeq(tokenize_spec(row), LAMBDA t : t.kind = "Option")
    IN [i \in DOMAIN toks |-> toks[i].raw]

\* the mentions of the rows processed so far, in document order
RECURSIVE C24_MentionsOf(_)
C24_MentionsOf(rows) ==
    IF rows = <<>> THEN <<>>
    ELSE C24_RowTokens(Head(rows)) \o C24_MentionsOf(Tail(rows))

C24_Mentions == C24_MentionsOf(SubSeq(he_rows, 1, he_i))

C24_FirstAt(m, tok) == CHOOSE i \in DOMAIN m : m[i] = tok /\ \A j \in 1..(i - 1) : m[j] # tok

\* the first non-whitespace character is '-' and the line does not begin with '---'
C24_OptionLine(line) ==
    \E i \in DOMAIN line :
        /\ \A j \in 1..(i - 1) : line[j] \in {" ", "\t"}
        /\ line[i] = "-"
        /\ ~(i + 2 <= Len(line) /\ line[i + 1] = "-" /\ line[i + 2] = "-")

\* the rows of the lines a predicate selects
RECURSIVE C24_RowsOf(_)
C24_RowsOf(lines) ==
    IF lines = <<>> THEN <<>>
    ELSE IF C24_OptionLine(Head(lines)) /\ option_spec_segment(Head(lines)) # <<>>
    THEN <<option_spec_segment(Head(lines))>> \o C24_RowsOf(Tail(lines))
    ELSE C24_RowsOf(Tail(lines))

C25_RowForms(row) ==
    {t.source : t \in {t \in Range(tokenize_spec(row)) : t.kind = "Arg"}}

\* the processed rows that mention the token
C25_MentioningRows(tok) ==
    {k \in 1..he_i : tok \in Range(C24_RowTokens(he_rows[k]))}

C25_ExpectedForm(tok) ==
    IF \E k \in C25_MentioningRows(tok) : "Attached" \in C25_RowForms(he_rows[k])
    THEN <<"Attached">>
    ELSE IF \E k \in C25_MentioningRows(tok) : C25_RowForms(he_rows[k]) # {}
    THEN <<"Trailing">>
    ELSE <<>>

C25_FormOf(binding) == IF binding = <<>> THEN <<>> ELSE <<binding[1].form>>

C25_WitnessBothForms ==
    /\ he_pc = "done"
    /\ \E k \in 1..he_i :
        /\ C25_RowForms(he_rows[k]) = {"Attached", "Trailing"}
        /\ Len(C24_RowTokens(he_rows[k])) = 2
        /\ \A i \in DOMAIN he_options :
            C25_FormOf(he_options[i].binding) = <<"Attached">>

IdleClassify ==
    /\ cl_option = <<>> /\ cl_attempt = NoAttempt
    /\ cl_result = [status |-> "pending", note |-> <<>>]
IdleInfer == ib_in = None /\ ib_out = PendingVerdict
IdleExec ==
    /\ x_plan = None /\ x_hints = None /\ x_pc = None /\ opt_idx = 0 /\ probe_idx = 0
    /\ existence = None /\ invalid_value = None /\ option_at_end = None
    /\ surfaces = <<>> /\ spawned = <<>>
IdlePlanner ==
    /\ request = None /\ plan = None /\ vp_pc = None /\ seen = {}
    /\ total_probes = 0 /\ planner_result = None

IdleSurface == InitSurface

IdleRunPlanner ==
    /\ rp_request = RunPlannerRequest
    /\ rp_env = [plan_set |-> FALSE, readable |-> FALSE, file |-> NoText,
                 cmd_set |-> FALSE, run |-> NoRun]
    /\ rp_pc = None
    /\ rp_raw = NoText
    /\ rp_plan = <<>>
    /\ rp_result = "pending"

IdleAnalyze ==
    /\ an_option = <<>> /\ an_attempt = NoAttempt /\ an_pc = None /\ an_result = NoAnalysis

IdleRunCommand ==
    /\ rc_limits = [wall_time_ms |-> 0, cpu_time_ms |-> 0, memory_kb |-> 0, file_size_kb |-> 0]
    /\ rc_pc = None /\ rc_child = NoChild /\ rc_pipe = [st \in Streams |-> <<>>]
    /\ rc_reader = [st \in Streams |-> [state |-> "none", buf |-> <<>>]]
    /\ rc_elapsed = 0 /\ rc_poll = NoPoll /\ rc_result = NoRunResult

\* the library functions are not running
IdleBindingAttempts == ba_in = None /\ ba_out = PendingBinding

IdleStopCompare ==
    /\ sc_plan = None /\ sc_hints = None /\ sc_outcome = None /\ sc_done = {}
    /\ sc_out = NoCalls

IdleExchange ==
    /\ pe_left = 0 /\ pe_pc = None /\ pe_program = <<>> /\ pe_child = "none"
    /\ pe_pipe = EmptyPipes /\ pe_result = "pending"

IdleHelp ==
    /\ he_content = <<>> /\ he_pc = None /\ he_rows = <<>> /\ he_i = 0 /\ he_options = <<>>

IdleLib ==
    IdleRunCommand /\ IdleBindingAttempts /\ IdleStopCompare /\ IdleExchange /\ IdleHelp

IdleChild ==
    /\ ch_call = None /\ ch_ambient = {} /\ ch_command = NewCommand /\ ch_pc = None
    /\ ch_child = "none" /\ ch_env = {} /\ ch_elapsed = 0 /\ ch_result = NoResult

\* run_planner validating one planner output
InitSpecPlanner ==
    InitPlanner /\ IdleClassify /\ IdleInfer
        /\ IdleExec /\ IdleChild /\ IdleSurface /\ IdleRunPlanner
        /\ IdleAnalyze /\ IdleLib

SpecPlanner == InitSpecPlanner /\ [][NextPlanner]_vars

\* one call of classify_attempt
InitSpecClassify ==
    InitClassify /\ IdlePlanner /\ IdleInfer
        /\ IdleExec /\ IdleChild /\ IdleSurface /\ IdleRunPlanner
        /\ IdleAnalyze /\ IdleLib

SpecClassify == InitSpecClassify /\ [][NextClassify]_vars

\* one call of infer_binding
InitSpecInfer ==
    InitInfer /\ IdlePlanner /\ IdleClassify
        /\ IdleExec /\ IdleChild /\ IdleSurface /\ IdleRunPlanner
        /\ IdleAnalyze /\ IdleLib

SpecInfer == InitSpecInfer /\ [][NextInfer]_vars

\* the run of cmd_surface: the plan carries the request's stop rules, both true
Init ==
    InitExec({RequestStopRules}) /\ IdlePlanner /\ IdleClassify
        /\ IdleInfer /\ IdleChild /\ IdleSurface /\ IdleRunPlanner
        /\ IdleAnalyze /\ IdleLib

Spec == Init /\ [][NextExec]_vars

\* execute_plan for every value of its plan parameter's stop rules
InitAnyStopRules ==
    InitExec(StopRuleValues) /\ IdlePlanner /\ IdleClassify
        /\ IdleInfer /\ IdleChild /\ IdleSurface /\ IdleRunPlanner
        /\ IdleAnalyze /\ IdleLib

SpecAnyStopRules == InitAnyStopRules /\ [][NextExec]_vars

\* one child invocation of the target binary
InitSpecChild ==
    InitChild /\ IdlePlanner /\ IdleClassify
        /\ IdleInfer /\ IdleExec /\ IdleSurface /\ IdleRunPlanner
        /\ IdleAnalyze /\ IdleLib

SpecChild == InitSpecChild /\ [][NextChild]_vars

\* runs of the program, one after the other, on one cache directory
InitSpecSurface ==
    InitSurface /\ IdlePlanner /\ IdleClassify
        /\ IdleInfer /\ IdleExec /\ IdleChild /\ IdleRunPlanner
        /\ IdleAnalyze /\ IdleLib

SpecSurface == InitSpecSurface /\ [][NextSurface]_vars

\* one call of run_planner
InitSpecRunPlanner ==
    InitRunPlanner /\ IdlePlanner /\ IdleClassify
        /\ IdleInfer /\ IdleExec /\ IdleChild /\ IdleSurface /\ IdleAnalyze /\ IdleLib

SpecRunPlanner == InitSpecRunPlanner /\ [][NextRunPlanner]_vars

\* one call of analyze_binding_attempt
InitSpecAnalyze ==
    InitAnalyze /\ IdlePlanner /\ IdleClassify /\ IdleInfer
        /\ IdleExec /\ IdleChild /\ IdleSurface /\ IdleRunPlanner /\ IdleLib

SpecAnalyze == InitSpecAnalyze /\ [][NextAnalyze]_vars

\* one call of run_command
InitSpecRunCommand ==
    InitRunCommand /\ IdlePlanner /\ IdleClassify /\ IdleInfer /\ IdleExec
        /\ IdleChild /\ IdleSurface /\ IdleRunPlanner /\ IdleAnalyze
        /\ IdleBindingAttempts /\ IdleStopCompare /\ IdleExchange /\ IdleHelp

SpecRunCommand == InitSpecRunCommand /\ [][NextRunCommand]_vars

\* one call of classify_binding_attempts
InitSpecBindingAttempts ==
    InitBindingAttempts /\ IdlePlanner /\ IdleClassify /\ IdleInfer /\ IdleExec
        /\ IdleChild /\ IdleSurface /\ IdleRunPlanner /\ IdleAnalyze /\ IdleRunCommand
        /\ IdleStopCompare /\ IdleExchange /\ IdleHelp

SpecBindingAttempts == InitSpecBindingAttempts /\ [][NextBindingAttempts]_vars

\* two calls of execute_plan on one target
InitSpecStopCompare ==
    InitStopCompare /\ IdlePlanner /\ IdleClassify /\ IdleInfer /\ IdleExec
        /\ IdleChild /\ IdleSurface /\ IdleRunPlanner /\ IdleAnalyze /\ IdleRunCommand
        /\ IdleBindingAttempts /\ IdleExchange /\ IdleHelp

SpecStopCompare == InitSpecStopCompare /\ [][NextStopCompare]_vars

\* one exchange of run_planner with a planner process
InitSpecExchange ==
    InitExchange /\ IdlePlanner /\ IdleClassify /\ IdleInfer /\ IdleExec
        /\ IdleChild /\ IdleSurface /\ IdleRunPlanner /\ IdleAnalyze /\ IdleRunCommand
        /\ IdleBindingAttempts /\ IdleStopCompare /\ IdleHelp

SpecExchange == InitSpecExchange /\ [][NextExchange]_vars

\* one call of extract_help_options
InitSpecHelp ==
    InitHelp /\ IdlePlanner /\ IdleClassify /\ IdleInfer /\ IdleExec
        /\ IdleChild /\ IdleSurface /\ IdleRunPlanner /\ IdleAnalyze /\ IdleRunCommand
        /\ IdleBindingAttempts /\ IdleStopCompare /\ IdleExchange

SpecHelp == InitSpecHelp /\ [][NextHelp]_vars

====
